---------------------------- MODULE Spec2Model ----------------------------
(* A model of simple-tftp: the packet codec (src/src/packet.rs), the       *)
(* chunking DataStream (src/src/datastream.rs), the socket wrapper         *)
(* (src/src/socket.rs) and the read-transfer engine Transfer::finish       *)
(* (src/src/server.rs).                                                    *)
(*                                                                         *)
(* Bytes are integers 0..255, byte strings and text are sequences of       *)
(* bytes.  Option<T> is a sequence of length 0 (None) or 1 (Some).         *)
(* Integers wider than TLC's 32 bits are kept as canonical decimal digit   *)
(* sequences ("Dec": digits 0..9, most significant first, no leading 0).   *)
EXTENDS Integers, Sequences, FiniteSets, TLC

(***************************************************************************)
(* Bounds of the exploration.                                              *)
(***************************************************************************)
\* longest source, in bytes, of the small transfers of Spec, next to the
\* sources of DefaultBlockSize bytes and one more
MaxSrcLen == 17
\* most blocks of a small transfer of Spec
MaxBlocks == 3
\* most read() calls of one try_read_exact whose outcome is chosen freely;
\* every later read of that call hands over all the bytes asked for
MaxReads == 2
\* length of the receive/encode buffer of the transfer's TFTPSocket
SockBufferSize == 64

(***************************************************************************)
(* Program constants.                                                      *)
(***************************************************************************)
\* u16 arithmetic: block_counter.wrapping_add(1)
U16Modulus == 65536
\* options.blocksize.unwrap_or(512)
DefaultBlockSize == 512
\* parse_blocksize: valid values range between 8 and 65464
MinBlockSize == 8
MaxBlockSize == 65464

None == << >>
Some(x) == << x >>
IsSome(o) == Len(o) = 1
IsNone(o) == Len(o) = 0
Unwrap(o) == o[1]

Min(a, b) == IF a < b THEN a ELSE b

\* the one element of a one-element set.  The({ e(x) : x \in { v } }) is
\* e(v) with v computed once, however often e uses it.
The(S) == CHOOSE x \in S : TRUE

\* seq[n..] and seq[..n] of a slice, n counted from 0; Take gives the
\* whole slice when it has fewer than n bytes
Drop(seq, n) == SubSeq(seq, n + 1, Len(seq))
Take(seq, n) == SubSeq(seq, 1, IF n < Len(seq) THEN n ELSE Len(seq))

\* u16::to_be_bytes / u16::from_be_bytes
to_be_bytes(n) == << n \div 256, n % 256 >>
from_be_bytes(hi, lo) == hi * 256 + lo

(***************************************************************************)
(* Text constants of the wire format, as bytes.                            *)
(***************************************************************************)
S_blksize == << 98, 108, 107, 115, 105, 122, 101 >>
S_tsize == << 116, 115, 105, 122, 101 >>
S_timeout == << 116, 105, 109, 101, 111, 117, 116 >>
S_octet == << 111, 99, 116, 101, 116 >>
S_octets == << 111, 99, 116, 101, 116, 115 >>
\* "Unexpected IO error"
S_unexpected_io == << 85, 110, 101, 120, 112, 101, 99, 116, 101, 100, 32,
                      73, 79, 32, 101, 114, 114, 111, 114 >>

\* u8::to_ascii_lowercase and str::eq_ignore_ascii_case
to_ascii_lowercase(b) == IF b >= 65 /\ b <= 90 THEN b + 32 ELSE b
\* comparison of two strings that tells the cases of letters apart
eq_exact(a, b) == a = b

eq_ignore_ascii_case(a, b) ==
    /\ Len(a) = Len(b)
    /\ \A i \in 1..Len(a) : to_ascii_lowercase(a[i]) = to_ascii_lowercase(b[i])

(***************************************************************************)
(* Decimal numbers: str::parse::<u32|u64|NonZeroU8> and {n} formatting.    *)
(***************************************************************************)
RECURSIVE StripZeros(_)
StripZeros(ds) ==
    IF Len(ds) > 1 /\ ds[1] = 0 THEN StripZeros(Tail(ds)) ELSE ds

\* a <= b on canonical digit sequences
RECURSIVE DecLexLeq(_, _)
DecLexLeq(a, b) ==
    IF Len(a) = 0 THEN TRUE
    ELSE IF a[1] # b[1] THEN a[1] < b[1]
    ELSE DecLexLeq(Tail(a), Tail(b))
DecLeq(a, b) ==
    \/ Len(a) < Len(b)
    \/ Len(a) = Len(b) /\ DecLexLeq(a, b)

RECURSIVE DecOfInt(_)
DecOfInt(n) ==
    IF n < 10 THEN << n >> ELSE Append(DecOfInt(n \div 10), n % 10)

\* the value of the first k digits; used on at most 9 digits
RECURSIVE IntOfDigits(_, _)
IntOfDigits(ds, k) ==
    IF k = 0 THEN 0 ELSE IntOfDigits(ds, k - 1) * 10 + ds[k]
IntOfDec(ds) == IntOfDigits(ds, Len(ds))

U32Max == << 4, 2, 9, 4, 9, 6, 7, 2, 9, 5 >>
U64Max == << 1, 8, 4, 4, 6, 7, 4, 4, 0, 7, 3, 7, 0, 9, 5, 5, 1, 6, 1, 5 >>
U8Max == << 2, 5, 5 >>

\* `{n}` of an unsigned integer given as Dec: its ASCII digits
FormatDec(ds) == [i \in 1..Len(ds) |-> ds[i] + 48]

\* from_str_radix that takes the largest value of the type for an overflow
ParseUnsigned_below_max(str, max) ==
    LET body == IF Len(str) > 1 /\ str[1] = 43 THEN Tail(str) ELSE str
        isDigits == Len(body) > 0 /\ \A i \in 1..Len(body) : body[i] >= 48 /\ body[i] <= 57
        ds == StripZeros([i \in 1..Len(body) |-> body[i] - 48])
    IN IF isDigits /\ DecLeq(ds, max) /\ ds # max
       THEN [ok |-> TRUE, val |-> ds]
       ELSE [ok |-> FALSE, val |-> << >>]

\* core::num from_str_radix(10) for an unsigned type whose largest value is
\* max: an optional leading '+', then one or more ASCII digits; leading
\* zeros are allowed; a value above max is an error.
ParseUnsigned(str, max) ==
    LET body == IF Len(str) > 1 /\ str[1] = 43 THEN Tail(str) ELSE str
        isDigits == Len(body) > 0 /\ \A i \in 1..Len(body) : body[i] >= 48 /\ body[i] <= 57
        ds == StripZeros([i \in 1..Len(body) |-> body[i] - 48])
    IN IF isDigits /\ DecLeq(ds, max)
       THEN [ok |-> TRUE, val |-> ds]
       ELSE [ok |-> FALSE, val |-> << >>]

\* str::parse::<u8>(): zero is taken
ParseU8(str) ==
    LET r == ParseUnsigned(str, U8Max)
    IN IF r.ok
       THEN [ok |-> TRUE, val |-> IntOfDec(r.val)]
       ELSE [ok |-> FALSE, val |-> 0]

\* str::parse::<NonZeroU8>(): a u8 that is not zero
ParseNonZeroU8(str) ==
    LET r == ParseUnsigned(str, U8Max)
    IN IF r.ok /\ r.val # << 0 >>
       THEN [ok |-> TRUE, val |-> IntOfDec(r.val)]
       ELSE [ok |-> FALSE, val |-> 0]

(***************************************************************************)
(* Decoding (Packet::from_bytes and the per-kind decoders).                *)
(* A decode result is a record with field tag: a packet kind, or "Err"     *)
(* with the TftpError in err (and its payload in val), or "Panic" where an  *)
(* index or a slice bound lies outside the slice it is applied to.         *)
(***************************************************************************)
DecodeErr(e) == [tag |-> "Err", err |-> e, val |-> << >>]
InvalidBlockSize(v) == [tag |-> "Err", err |-> "InvalidBlockSize", val |-> v]
InvalidOpcode(v) == [tag |-> "Err", err |-> "InvalidOpcode", val |-> << v >>]

\* the bounds checks of data[i] and &data[n..], i and n counted from 0
HasIndex(data, i) == i < Len(data)
HasSliceFrom(data, n) == n <= Len(data)
\* the panic of a failed bounds check
DecodePanic == [tag |-> "Panic", err |-> "index out of bounds", val |-> << >>]

\* OpCode::try_from that looks at the low byte of the value only
OpCode_try_from_low_byte(value) ==
    IF value % 256 \in 1..6 THEN [ok |-> TRUE, opcode |-> value % 256]
    ELSE [ok |-> FALSE, opcode |-> value]

\* OpCode::try_from(u16)
OpCode_try_from(value) ==
    IF value \in 1..6 THEN [ok |-> TRUE, opcode |-> value]
    ELSE [ok |-> FALSE, opcode |-> value]

\* position of the first byte outside 32..=126, 0 when there is none
RECURSIVE first_non_graphic(_, _)
first_non_graphic(data, i) ==
    IF i > Len(data) THEN 0
    ELSE IF data[i] < 32 \/ data[i] > 126 THEN i
    ELSE first_non_graphic(data, i + 1)

\* position of the first byte outside 32..=127, 0 when there is none
RECURSIVE first_non_ascii(_, _)
first_non_ascii(data, i) ==
    IF i > Len(data) THEN 0
    ELSE IF data[i] < 32 \/ data[i] > 127 THEN i
    ELSE first_non_ascii(data, i + 1)

\* printable_ascii_str_from_u8: (text, remainder) or BadFormatting; panic
\* when data[index], &data[..index] or &data[(index + 1).min(len)..] is
\* out of bounds (index is first_non_ascii - 1, counted from 0)
printable_ascii_str_from_u8(data) ==
    LET index == first_non_ascii(data, 1)
    IN IF index = 0
       THEN [ok |-> FALSE, panic |-> FALSE, str |-> << >>, rest |-> << >>]
       ELSE IF ~HasIndex(data, index - 1)
       THEN [ok |-> FALSE, panic |-> TRUE, str |-> << >>, rest |-> << >>]
       ELSE IF data[index] # 0
       THEN [ok |-> FALSE, panic |-> FALSE, str |-> << >>, rest |-> << >>]
       ELSE IF ~HasSliceFrom(data, index - 1) \/ ~HasSliceFrom(data, Min(index, Len(data)))
       THEN [ok |-> FALSE, panic |-> TRUE, str |-> << >>, rest |-> << >>]
       ELSE [ok |-> TRUE, panic |-> FALSE, str |-> Take(data, index - 1),
             rest |-> Drop(data, Min(index, Len(data)))]

\* get_option_pair: kind "none" on an empty region, "pair", "err", or
\* "panic"
get_option_pair(data) ==
    IF Len(data) = 0
    THEN [kind |-> "none", name |-> << >>, value |-> << >>, rest |-> << >>]
    ELSE LET n == printable_ascii_str_from_u8(data)
             v == printable_ascii_str_from_u8(n.rest)
         IN IF n.panic \/ (n.ok /\ v.panic)
            THEN [kind |-> "panic", name |-> << >>, value |-> << >>, rest |-> << >>]
            ELSE IF n.ok /\ v.ok
            THEN [kind |-> "pair", name |-> n.str, value |-> v.str, rest |-> v.rest]
            ELSE [kind |-> "err", name |-> << >>, value |-> << >>, rest |-> << >>]

\* parse_blocksize that takes 8 for too small
parse_blocksize_above_min(as_str) ==
    LET r == ParseUnsigned(as_str, U32Max)
    IN IF ~r.ok THEN [ok |-> FALSE, val |-> 0, err |-> DecodeErr("BadFormatting")]
       ELSE IF DecLeq(r.val, DecOfInt(MinBlockSize)) \/ ~DecLeq(r.val, DecOfInt(MaxBlockSize))
       THEN [ok |-> FALSE, val |-> 0, err |-> InvalidBlockSize(r.val)]
       ELSE [ok |-> TRUE, val |-> IntOfDec(r.val), err |-> DecodeErr("")]

\* parse_blocksize: Ok(u16) in val, or the error in err
parse_blocksize(as_str) ==
    LET r == ParseUnsigned(as_str, U32Max)
    IN IF ~r.ok THEN [ok |-> FALSE, val |-> 0, err |-> DecodeErr("BadFormatting")]
       ELSE IF ~DecLeq(DecOfInt(MinBlockSize), r.val) \/ ~DecLeq(r.val, DecOfInt(MaxBlockSize))
       THEN [ok |-> FALSE, val |-> 0, err |-> InvalidBlockSize(r.val)]
       ELSE [ok |-> TRUE, val |-> IntOfDec(r.val), err |-> DecodeErr("")]


\* Request::from_bytes_skip_opcode_check, the option loop (lines 389-415):
\* acc holds blocksize, include_transfer_size, timeout_seconds,
\* has_unknown_options and fail (None, or Some(error) once the loop returned)
RECURSIVE request_options(_, _)
request_options(options_data, acc) ==
    The({
       IF p.kind = "panic" THEN [acc EXCEPT !.fail = Some(DecodePanic)]
       ELSE IF p.kind = "err" THEN [acc EXCEPT !.fail = Some(DecodeErr("BadFormatting"))]
       ELSE IF p.kind = "none" THEN acc
       ELSE IF eq_ignore_ascii_case(p.name, S_blksize)
       THEN IF IsSome(acc.blocksize)
            THEN [acc EXCEPT !.fail = Some(DecodeErr("OptionRepeated"))]
            ELSE LET b == parse_blocksize(p.value)
                 IN IF ~b.ok THEN [acc EXCEPT !.fail = Some(b.err)]
                    ELSE request_options(p.rest, [acc EXCEPT !.blocksize = Some(b.val)])
       ELSE IF eq_ignore_ascii_case(p.name, S_tsize)
       THEN IF acc.include_transfer_size
            THEN [acc EXCEPT !.fail = Some(DecodeErr("OptionRepeated"))]
            ELSE IF p.value # << 48 >>
            THEN [acc EXCEPT !.fail = Some(DecodeErr("BadFormatting"))]
            ELSE request_options(p.rest, [acc EXCEPT !.include_transfer_size = TRUE])
       ELSE IF eq_ignore_ascii_case(p.name, S_timeout)
       THEN IF IsSome(acc.timeout_seconds)
            THEN [acc EXCEPT !.fail = Some(DecodeErr("OptionRepeated"))]
            ELSE LET t == ParseNonZeroU8(p.value)
                 IN IF ~t.ok THEN [acc EXCEPT !.fail = Some(DecodeErr("BadFormatting"))]
                    ELSE request_options(p.rest, [acc EXCEPT !.timeout_seconds = Some(t.val)])
       ELSE request_options(p.rest, [acc EXCEPT !.has_unknown_options = TRUE])
       : p \in { get_option_pair(options_data) } })

\* Request::from_bytes_skip_opcode_check that does not look at the mode
Request_from_bytes_any_mode(data, is_read) ==
    LET f == printable_ascii_str_from_u8(Drop(data, 2))
        m == printable_ascii_str_from_u8(f.rest)
        o == request_options(m.rest,
                 [blocksize |-> None, include_transfer_size |-> FALSE,
                  timeout_seconds |-> None, has_unknown_options |-> FALSE,
                  fail |-> None])
    IN IF ~HasSliceFrom(data, 2) THEN DecodePanic
       ELSE IF f.panic \/ (f.ok /\ m.panic) THEN DecodePanic
       ELSE IF ~f.ok \/ ~m.ok THEN DecodeErr("BadFormatting")
       ELSE IF IsSome(o.fail) THEN Unwrap(o.fail)
       ELSE [tag |-> "Request", is_read |-> is_read, filename |-> f.str,
             blocksize |-> o.blocksize,
             include_transfer_size |-> o.include_transfer_size,
             timeout_seconds |-> o.timeout_seconds,
             unknown_options |-> IF o.has_unknown_options THEN m.rest ELSE << >>]

\* Request::from_bytes_skip_opcode_check
Request_from_bytes_skip_opcode_check(data, is_read) ==
    LET f == printable_ascii_str_from_u8(Drop(data, 2))
        m == printable_ascii_str_from_u8(f.rest)
        o == request_options(m.rest,
                 [blocksize |-> None, include_transfer_size |-> FALSE,
                  timeout_seconds |-> None, has_unknown_options |-> FALSE,
                  fail |-> None])
    IN IF ~HasSliceFrom(data, 2) THEN DecodePanic
       ELSE IF f.panic \/ (f.ok /\ m.panic) THEN DecodePanic
       ELSE IF ~f.ok \/ ~m.ok THEN DecodeErr("BadFormatting")
       ELSE IF IsSome(o.fail) THEN Unwrap(o.fail)
       ELSE IF ~eq_ignore_ascii_case(m.str, S_octet) THEN DecodeErr("BadFormatting")
       ELSE [tag |-> "Request", is_read |-> is_read, filename |-> f.str,
             blocksize |-> o.blocksize,
             include_transfer_size |-> o.include_transfer_size,
             timeout_seconds |-> o.timeout_seconds,
             unknown_options |-> IF o.has_unknown_options THEN m.rest ELSE << >>]

\* Data::from_bytes_skip_opcode_check without its check of the length
Data_from_bytes_unchecked(data) ==
    IF ~HasIndex(data, 2) \/ ~HasIndex(data, 3) \/ ~HasSliceFrom(data, 4)
    THEN DecodePanic
    ELSE [tag |-> "Data", block_nr |-> from_be_bytes(data[3], data[4]),
          data |-> Drop(data, 4)]

\* Data::from_bytes_skip_opcode_check
Data_from_bytes_skip_opcode_check(data) ==
    IF Len(data) < 4 THEN DecodeErr("BufferTooSmall")
    ELSE IF ~HasIndex(data, 2) \/ ~HasIndex(data, 3) \/ ~HasSliceFrom(data, 4)
    THEN DecodePanic
    ELSE [tag |-> "Data", block_nr |-> from_be_bytes(data[3], data[4]),
          data |-> Drop(data, 4)]

\* Ack::from_bytes_skip_opcode_check
Ack_from_bytes_skip_opcode_check(data) ==
    IF Len(data) < 4 THEN DecodeErr("BufferTooSmall")
    ELSE IF ~HasIndex(data, 2) \/ ~HasIndex(data, 3) THEN DecodePanic
    ELSE [tag |-> "Ack", block_nr |-> from_be_bytes(data[3], data[4])]

\* Error::from_bytes_skip_opcode_check
Error_from_bytes_skip_opcode_check(data) ==
    IF Len(data) < 4 THEN DecodeErr("BufferTooSmall")
    ELSE IF ~HasIndex(data, 2) \/ ~HasIndex(data, 3) \/ ~HasSliceFrom(data, 4)
    THEN DecodePanic
    ELSE LET m == printable_ascii_str_from_u8(Drop(data, 4))
         IN IF m.panic THEN DecodePanic
            ELSE IF ~m.ok THEN DecodeErr("BadFormatting")
            ELSE [tag |-> "Error", error_code |-> from_be_bytes(data[3], data[4]),
                  message |-> m.str]

\* OptionAck::from_bytes_skip_opcode_check, the option loop (lines 570-596)
RECURSIVE optionack_options(_, _)
optionack_options(data, acc) ==
    The({
       IF p.kind = "panic" THEN [acc EXCEPT !.fail = Some(DecodePanic)]
       ELSE IF p.kind = "err" THEN [acc EXCEPT !.fail = Some(DecodeErr("BadFormatting"))]
       ELSE IF p.kind = "none" THEN acc
       ELSE IF eq_ignore_ascii_case(p.name, S_blksize)
       THEN IF IsSome(acc.blocksize)
            THEN [acc EXCEPT !.fail = Some(DecodeErr("OptionRepeated"))]
            ELSE LET b == parse_blocksize(p.value)
                 IN IF ~b.ok THEN [acc EXCEPT !.fail = Some(b.err)]
                    ELSE optionack_options(p.rest, [acc EXCEPT !.blocksize = Some(b.val)])
       ELSE IF eq_ignore_ascii_case(p.name, S_tsize)
       THEN IF IsSome(acc.transfer_size)
            THEN [acc EXCEPT !.fail = Some(DecodeErr("OptionRepeated"))]
            ELSE LET t == ParseUnsigned(p.value, U64Max)
                 IN IF ~t.ok THEN [acc EXCEPT !.fail = Some(DecodeErr("BadFormatting"))]
                    ELSE optionack_options(p.rest, [acc EXCEPT !.transfer_size = Some(t.val)])
       ELSE IF eq_ignore_ascii_case(p.name, S_timeout)
       THEN IF IsSome(acc.timeout_seconds)
            THEN [acc EXCEPT !.fail = Some(DecodeErr("OptionRepeated"))]
            ELSE LET t == ParseNonZeroU8(p.value)
                 IN IF ~t.ok THEN [acc EXCEPT !.fail = Some(DecodeErr("BadFormatting"))]
                    ELSE optionack_options(p.rest, [acc EXCEPT !.timeout_seconds = Some(t.val)])
       ELSE optionack_options(p.rest, [acc EXCEPT !.has_unknown_options = TRUE])
       : p \in { get_option_pair(data) } })

\* OptionAck::from_bytes_skip_opcode_check
OptionAck_from_bytes_skip_opcode_check(data) ==
    LET original_options == Drop(data, 2)
        o == optionack_options(original_options,
                 [blocksize |-> None, transfer_size |-> None,
                  timeout_seconds |-> None, has_unknown_options |-> FALSE,
                  fail |-> None])
    IN IF ~HasSliceFrom(data, 2) THEN DecodePanic
       ELSE IF IsSome(o.fail) THEN Unwrap(o.fail)
       ELSE [tag |-> "OptionAck", blocksize |-> o.blocksize,
             transfer_size |-> o.transfer_size,
             timeout_seconds |-> o.timeout_seconds,
             unknown_options |-> IF o.has_unknown_options THEN original_options ELSE << >>]

\* Packet::from_bytes
Packet_from_bytes(data) ==
    IF Len(data) < 2 THEN DecodeErr("BufferTooSmall")
    ELSE IF ~HasIndex(data, 0) \/ ~HasIndex(data, 1) THEN DecodePanic
    ELSE LET oc == OpCode_try_from(from_be_bytes(data[1], data[2]))
         IN IF ~oc.ok THEN InvalidOpcode(oc.opcode)
            ELSE CASE oc.opcode = 1 -> Request_from_bytes_skip_opcode_check(data, TRUE)
                   [] oc.opcode = 2 -> Request_from_bytes_skip_opcode_check(data, FALSE)
                   [] oc.opcode = 3 -> Data_from_bytes_skip_opcode_check(data)
                   [] oc.opcode = 4 -> Ack_from_bytes_skip_opcode_check(data)
                   [] oc.opcode = 5 -> Error_from_bytes_skip_opcode_check(data)
                   [] oc.opcode = 6 -> OptionAck_from_bytes_skip_opcode_check(data)

(***************************************************************************)
(* Encoding.  A BufferWriter is [len, bytes, overflowed, panicked]: len is *)
(* buff.len(), bytes what was written from the start of buff (size is its  *)
(* length), panicked whether a subtraction or a slice bound of a push was  *)
(* out of range.                                                           *)
(***************************************************************************)
BufferWriter_new(len) ==
    [len |-> len, bytes |-> << >>, overflowed |-> FALSE, panicked |-> FALSE]

\* push_bytes that does not record the bytes it left out
push_bytes_unrecorded(w, bytes) ==
    [w EXCEPT !.bytes = w.bytes \o Take(bytes, Min(Len(bytes), w.len - Len(w.bytes)))]

\* BufferWriter::push_bytes
push_bytes(w, bytes) ==
    LET free_bytes == w.len - Len(w.bytes)
        to_push == Min(Len(bytes), free_bytes)
    IN IF w.panicked THEN w
       ELSE IF free_bytes < 0 \/ Len(w.bytes) + to_push > w.len \/ to_push > Len(bytes)
       THEN [w EXCEPT !.panicked = TRUE]
       ELSE [w EXCEPT !.bytes = w.bytes \o Take(bytes, to_push),
                      !.overflowed = w.overflowed \/ to_push < Len(bytes)]

\* BufferWriter::push_byte
push_byte(w, byte) ==
    IF w.panicked THEN w
    ELSE IF Len(w.bytes) < w.len
    THEN IF ~(Len(w.bytes) < w.len) THEN [w EXCEPT !.panicked = TRUE]
         ELSE [w EXCEPT !.bytes = Append(w.bytes, byte)]
    ELSE [w EXCEPT !.overflowed = TRUE]

\* write!(w, ...): write_str on each piece in turn, stopping at the first
\* piece after which the writer reports an overflow (write_str returns Err)
RECURSIVE write_fmt(_, _)
write_fmt(w, pieces) ==
    IF Len(pieces) = 0 THEN w
    ELSE The({ IF w1.overflowed \/ w1.panicked THEN w1 ELSE write_fmt(w1, Tail(pieces))
               : w1 \in { push_bytes(w, Head(pieces)) } })

\* the pieces of write!(w, "name\0{value}\0")
OptionPieces(name, value) == << name \o << 0 >>, value, << 0 >> >>

\* one statement of a to_bytes on the writer: [op, arg]
exec(w, st) ==
    CASE st.op = "push_bytes" -> push_bytes(w, st.arg)
      [] st.op = "push_byte" -> push_byte(w, st.arg)
      [] st.op = "write" -> write_fmt(w, st.arg)

\* the statements of a to_bytes, in order
RECURSIVE run(_, _)
run(w, stmts) ==
    IF Len(stmts) = 0 THEN w
    ELSE The({ run(w1, Tail(stmts)) : w1 \in { exec(w, Head(stmts)) } })

Stmt(op, arg) == << [op |-> op, arg |-> arg] >>
If(cond, stmts) == IF cond THEN stmts ELSE << >>

\* the value of a to_bytes: Err(BufferTooSmall), Ok(n) with the n bytes
\* written, or a panic
EncodeErr == [ok |-> FALSE, panic |-> FALSE, bytes |-> << >>]
EncodeOk(bytes) == [ok |-> TRUE, panic |-> FALSE, bytes |-> bytes]
EncodePanic == [ok |-> FALSE, panic |-> TRUE, bytes |-> << >>]

\* if write_target.overflowed() { Err(BufferTooSmall) } else { Ok(size) }
Finish(w) ==
    IF w.panicked THEN EncodePanic
    ELSE IF w.overflowed THEN EncodeErr
    ELSE EncodeOk(w.bytes)

\* Data::to_bytes into a buffer of buflen bytes; buf[0..2], buf[2..4] and
\* buf[4..n_bytes] panic when they do not lie in the buffer
Data_to_bytes(p, buflen) ==
    IF 4 + Len(p.data) > buflen THEN EncodeErr
    ELSE IF 4 > buflen \/ 4 + Len(p.data) > buflen THEN EncodePanic
    ELSE EncodeOk(to_be_bytes(3) \o to_be_bytes(p.block_nr) \o p.data)

\* Ack::to_bytes
Ack_to_bytes(p, buflen) ==
    IF buflen >= 4
    THEN IF 4 > buflen THEN EncodePanic
         ELSE EncodeOk(to_be_bytes(5) \o to_be_bytes(p.block_nr))
    ELSE EncodeErr

\* Error::to_bytes
Error_to_bytes(p, buflen) ==
    IF 4 + Len(p.message) + 1 > buflen THEN EncodeErr
    ELSE IF 4 > buflen \/ 4 + Len(p.message) + 1 > buflen THEN EncodePanic
    ELSE EncodeOk(to_be_bytes(5) \o to_be_bytes(p.error_code) \o p.message \o << 0 >>)

\* Request::to_bytes: what it does to its writer, in order
Request_stmts(p) ==
        Stmt("push_bytes", to_be_bytes(IF p.is_read THEN 1 ELSE 2))
        \o Stmt("push_bytes", p.filename)
        \o Stmt("push_byte", 0)
        \o Stmt("push_bytes", S_octets \o << 0 >>)
        \o If(IsSome(p.blocksize),
              Stmt("write", OptionPieces(S_blksize, FormatDec(DecOfInt(p.blocksize[1])))))
        \o If(IsSome(p.timeout_seconds),
              Stmt("write", OptionPieces(S_timeout, FormatDec(DecOfInt(p.timeout_seconds[1])))))
        \o If(p.include_transfer_size,
              Stmt("push_bytes", S_tsize \o << 0, 48, 0 >>))

\* Request::to_bytes
Request_to_bytes(p, buflen) ==
    Finish(run(BufferWriter_new(buflen), Request_stmts(p)))

\* OptionAck::to_bytes: what it does to its writer, in order
OptionAck_stmts(p) ==
        Stmt("push_bytes", to_be_bytes(6))
        \o If(IsSome(p.blocksize),
              Stmt("write", OptionPieces(S_blksize, FormatDec(DecOfInt(p.blocksize[1])))))
        \o If(IsSome(p.transfer_size),
              Stmt("write", OptionPieces(S_tsize, FormatDec(p.transfer_size[1]))))
        \o If(IsSome(p.timeout_seconds),
              Stmt("write", OptionPieces(S_timeout, FormatDec(DecOfInt(p.timeout_seconds[1])))))

\* OptionAck::to_bytes
OptionAck_to_bytes(p, buflen) ==
    Finish(run(BufferWriter_new(buflen), OptionAck_stmts(p)))

\* Packet::to_bytes
Packet_to_bytes(p, buflen) ==
    CASE p.tag = "Ack" -> Ack_to_bytes(p, buflen)
      [] p.tag = "Data" -> Data_to_bytes(p, buflen)
      [] p.tag = "Error" -> Error_to_bytes(p, buflen)
      [] p.tag = "Request" -> Request_to_bytes(p, buflen)
      [] p.tag = "OptionAck" -> OptionAck_to_bytes(p, buflen)

\* an iterator that, having yielded a pair, goes on from the byte that
\* ends its value; C34 does not hold of it
RECURSIVE unknown_from_terminator(_)
unknown_from_terminator(buff) ==
    The({ IF p.kind = "none" THEN << >>
          ELSE IF p.kind = "pair"
          THEN (IF p.name \in { S_blksize, S_timeout, S_tsize } THEN << >>
                ELSE << [name |-> p.name, value |-> p.value] >>)
               \o unknown_from_terminator(<< 0 >> \o p.rest)
          ELSE << [name |-> << >>, value |-> << >>, err |-> p.kind] >>
          : p \in { get_option_pair(buff) } })

\* OptionsIterator::next until it returns None, and the filter of
\* OptionsIterator::unknown on what it yields: the pairs, in order, whose
\* name is none of "blksize", "timeout", "tsize".  An Err is yielded when
\* the region does not scan; the iterator then stays where it is, and the
\* sequence is given up to that first Err.
RECURSIVE unknown(_)
unknown(buff) ==
    The({ IF p.kind = "none" THEN << >>
          ELSE IF p.kind = "pair"
          THEN (IF p.name \in { S_blksize, S_timeout, S_tsize } THEN << >>
                ELSE << [name |-> p.name, value |-> p.value] >>)
               \o unknown(p.rest)
          ELSE << [name |-> << >>, value |-> << >>, err |-> p.kind] >>
          : p \in { get_option_pair(buff) } })

\* Request::unknown_options and OptionAck::unknown_options
unknown_options(p) == unknown(p.unknown_options)

\* OptionAck::new
OptionAck_new(blocksize, transfer_size, timeout_seconds) ==
    [tag |-> "OptionAck", blocksize |-> blocksize, transfer_size |-> transfer_size,
     timeout_seconds |-> timeout_seconds, unknown_options |-> << >>]

\* an is_empty that does not look at the unknown options
is_empty_known_only(o) ==
    /\ IsNone(o.blocksize)
    /\ IsNone(o.timeout_seconds)
    /\ IsNone(o.transfer_size)

\* OptionAck::is_empty
is_empty(o) ==
    /\ IsNone(o.blocksize)
    /\ IsNone(o.timeout_seconds)
    /\ IsNone(o.transfer_size)
    /\ Len(o.unknown_options) = 0

\* Packet::new_error / Error::new
new_error(error_code, message) ==
    [tag |-> "Error", error_code |-> error_code, message |-> message]

\* Packet::new_data / Data::new
new_data(block_nr, data) == [tag |-> "Data", block_nr |-> block_nr, data |-> data]

\* Packet::new_ack / Ack::new
new_ack(block_nr) == [tag |-> "Ack", block_nr |-> block_nr]

\* Request::new_request
new_request(filename, blocksize, is_read) ==
    [tag |-> "Request", is_read |-> is_read, filename |-> filename,
     include_transfer_size |-> FALSE, timeout_seconds |-> None,
     blocksize |-> blocksize, unknown_options |-> << >>]

\* Packet::new_read_request and Packet::new_write_request
new_read_request(filename, blocksize) == new_request(filename, blocksize, TRUE)
new_write_request(filename, blocksize) == new_request(filename, blocksize, FALSE)


(***************************************************************************)
(* I/O errors.  An io::Error is [kind, origin, code, message, block]:      *)
(* kind is its ErrorKind, origin the place that made it, and code, message *)
(* and block what its text is formatted from.                              *)
(***************************************************************************)
IoError(kind, origin, code, message, block) ==
    [kind |-> kind, origin |-> origin, code |-> code, message |-> message,
     block |-> block]

\* the error a failing read() of the byte source returns
SourceError == IoError("PermissionDenied", "source", << >>, << >>, << >>)
\* the error a failing UdpSocket::send returns
SendError == IoError("ConnectionRefused", "send", << >>, << >>, << >>)
\* the error a failing UdpSocket::recv_from returns, a read timeout for one
RecvError == IoError("TimedOut", "recv_from", << >>, << >>, << >>)

\* impl Display for ErrorCode: the text of the eight named codes, and
\* "Undefined Error Code(n)" for every other value
ErrorCode_fmt(code) ==
    CASE code = 0 -> << "Not defined, see error message (if any)" >>
      [] code = 1 -> << "File not found" >>
      [] code = 2 -> << "Access violation" >>
      [] code = 3 -> << "Disk full or allocation exceeded" >>
      [] code = 4 -> << "Illegal TFTP operation" >>
      [] code = 5 -> << "Unknown transfer ID" >>
      [] code = 6 -> << "File already exists" >>
      [] code = 7 -> << "No such user" >>
      [] OTHER -> << "Undefined Error Code", code >>

(***************************************************************************)
(* The byte source (the R: Read a Transfer is given) and ChunkyReader.     *)
(* A source is [len, pos]: len bytes in all, pos of them read so far; its  *)
(* i-th byte is SourceByte(i).                                             *)
(***************************************************************************)
SourceByte(i) == 97 + ((i - 1) % 26)

\* what one call of inner.read(buf) may do
ReadOutcomes == { "full", "short", "interrupted", "wouldblock", "error" }

RECURSIVE SeqsUpTo(_, _)
SeqsUpTo(S, n) ==
    IF n = 0 THEN { << >> }
    ELSE LET shorter == SeqsUpTo(S, n - 1)
         IN shorter \cup { Append(q, x) : q \in { r \in shorter : Len(r) = n - 1 }, x \in S }

\* the outcomes of the successive read() calls of one try_read_exact; the
\* calls after the last listed one are "full"
ReadScripts == SeqsUpTo(ReadOutcomes, MaxReads)

\* a try_read_exact that returns after the first read() that brings bytes,
\* as Read::read does; C30 does not hold of it
RECURSIVE read_loop_one_read(_, _, _, _)
read_loop_one_read(len, avail, bytes_read, script) ==
    IF bytes_read >= len
    THEN [ok |-> TRUE, n |-> bytes_read, filled |-> bytes_read]
    ELSE LET outcome == IF Len(script) = 0 THEN "full" ELSE Head(script)
             rest == IF Len(script) = 0 THEN script ELSE Tail(script)
             n == IF outcome = "short" THEN Min(1, avail)
                  ELSE Min(len - bytes_read, avail)
         IN CASE outcome \in { "interrupted", "wouldblock" } ->
                     read_loop_one_read(len, avail, bytes_read, rest)
              [] outcome = "error" ->
                     [ok |-> FALSE, n |-> 0, filled |-> bytes_read]
              [] OTHER ->
                     [ok |-> TRUE, n |-> bytes_read + n, filled |-> bytes_read + n]

\* a try_read_exact that gives up on Interrupted as on any other error;
\* C31 does not hold of it
RECURSIVE read_loop_interrupted_fails(_, _, _, _)
read_loop_interrupted_fails(len, avail, bytes_read, script) ==
    IF bytes_read >= len
    THEN [ok |-> TRUE, n |-> bytes_read, filled |-> bytes_read]
    ELSE LET outcome == IF Len(script) = 0 THEN "full" ELSE Head(script)
             rest == IF Len(script) = 0 THEN script ELSE Tail(script)
             n == IF outcome = "short" THEN Min(1, avail)
                  ELSE Min(len - bytes_read, avail)
         IN CASE outcome = "wouldblock" ->
                     read_loop_interrupted_fails(len, avail, bytes_read, rest)
              [] outcome \in { "interrupted", "error" } ->
                     [ok |-> FALSE, n |-> 0, filled |-> bytes_read]
              [] OTHER ->
                     IF n = 0
                     THEN [ok |-> TRUE, n |-> bytes_read, filled |-> bytes_read]
                     ELSE read_loop_interrupted_fails(len, avail - n, bytes_read + n, rest)

\* the read() calls of ChunkyReader::try_read_exact on a slice of len bytes
\* of which bytes_read are filled, the source being at pos with avail more
\* bytes: [ok, n] is the value returned, Ok(n) or Err, and filled the count
\* of bytes the calls have written to the front of the slice
RECURSIVE read_loop(_, _, _, _)
read_loop(len, avail, bytes_read, script) ==
    IF bytes_read >= len
    THEN [ok |-> TRUE, n |-> bytes_read, filled |-> bytes_read]
    ELSE LET outcome == IF Len(script) = 0 THEN "full" ELSE Head(script)
             rest == IF Len(script) = 0 THEN script ELSE Tail(script)
             n == IF outcome = "short" THEN Min(1, avail)
                  ELSE Min(len - bytes_read, avail)
         IN CASE outcome \in { "interrupted", "wouldblock" } ->
                     read_loop(len, avail, bytes_read, rest)
              [] outcome = "error" ->
                     [ok |-> FALSE, n |-> 0, filled |-> bytes_read]
              [] OTHER ->
                     IF n = 0
                     THEN [ok |-> TRUE, n |-> bytes_read, filled |-> bytes_read]
                     ELSE read_loop(len, avail - n, bytes_read + n, rest)

\* ChunkyReader::try_read_exact over the buffer slice buf: the value
\* returned in [ok, n, err], the slice and the source afterwards in buf and
\* inner.  Every read() writes the next bytes of the source behind those
\* of the read() before it.
try_read_exact(inner, buf, script) ==
    The({ [ok |-> r.ok, n |-> r.n, err |-> SourceError,
           buf |-> [i \in 1..r.filled |-> SourceByte(inner.pos + i)]
                       \o Drop(buf, r.filled),
           inner |-> [inner EXCEPT !.pos = inner.pos + r.filled]]
          : r \in { read_loop(Len(buf), inner.len - inner.pos, 0, script) } })

(***************************************************************************)
(* DataStream: [source, block_counter, is_finished, buffer].               *)
(***************************************************************************)
\* a DataStream::new that leaves the first two bytes of the buffer zero;
\* C32 does not hold of it
DataStream_new_unstamped(source, blocksize) ==
    [source |-> source, is_finished |-> FALSE, block_counter |-> 0,
     buffer |-> [i \in 1..(4 + blocksize) |-> 0]]

\* DataStream::new
DataStream_new(source, blocksize) ==
    [source |-> source, is_finished |-> FALSE, block_counter |-> 0,
     buffer |-> to_be_bytes(3) \o [i \in 1..(2 + blocksize) |-> 0]]

\* DataStream::blocksize
blocksize(ds) == Len(ds.buffer) - 4

\* an addition that does not wrap; C10 does not hold of it
unwrapped_add1(n) == n + 1

\* u16::wrapping_add(1)
wrapping_add1(n) == (n + 1) % U16Modulus

\* a next_raw that takes a full block for the last one; C9 does not hold
\* of it
next_raw_full_is_last(ds, script) ==
    IF ds.is_finished
    THEN [ds |-> ds, ret |-> "none", bytes |-> << >>, err |-> SourceError]
    ELSE The({
           [ds |-> [source |-> r.inner, block_counter |-> wrapping_add1(ds.block_counter),
                    is_finished |-> (~r.ok \/ r.n <= blocksize(ds)),
                    buffer |-> Take(ds.buffer, 2) \o to_be_bytes(wrapping_add1(ds.block_counter))
                                   \o r.buf],
            ret |-> IF r.ok THEN "some" ELSE "err",
            bytes |-> IF r.ok
                      THEN Take(ds.buffer, 2) \o to_be_bytes(wrapping_add1(ds.block_counter))
                               \o Take(r.buf, r.n)
                      ELSE << >>,
            err |-> r.err]
           : r \in { try_read_exact(ds.source, Drop(ds.buffer, 4), script) } })

\* a next_raw that does not set the finished flag when the source fails;
\* C29 does not hold of it
next_raw_error_unlatched(ds, script) ==
    IF ds.is_finished
    THEN [ds |-> ds, ret |-> "none", bytes |-> << >>, err |-> SourceError]
    ELSE The({
           [ds |-> [source |-> r.inner, block_counter |-> wrapping_add1(ds.block_counter),
                    is_finished |-> r.ok /\ r.n < blocksize(ds),
                    buffer |-> Take(ds.buffer, 2) \o to_be_bytes(wrapping_add1(ds.block_counter))
                                   \o r.buf],
            ret |-> IF r.ok THEN "some" ELSE "err",
            bytes |-> IF r.ok
                      THEN Take(ds.buffer, 2) \o to_be_bytes(wrapping_add1(ds.block_counter))
                               \o Take(r.buf, r.n)
                      ELSE << >>,
            err |-> r.err]
           : r \in { try_read_exact(ds.source, Drop(ds.buffer, 4), script) } })

\* DataStream::next_raw: the stream afterwards in ds, and in ret the value
\* returned: "none" (Ok(None)), "some" (Ok(Some(bytes))) or "err" (Err(err))
next_raw(ds, script) ==
    IF ds.is_finished
    THEN [ds |-> ds, ret |-> "none", bytes |-> << >>, err |-> SourceError]
    ELSE The({
           IF r.ok
           THEN [ds |-> [source |-> r.inner, block_counter |-> wrapping_add1(ds.block_counter),
                         is_finished |-> r.n < blocksize(ds),
                         buffer |-> Take(ds.buffer, 2) \o to_be_bytes(wrapping_add1(ds.block_counter))
                                        \o r.buf],
                 ret |-> "some",
                 bytes |-> Take(ds.buffer, 2) \o to_be_bytes(wrapping_add1(ds.block_counter))
                               \o Take(r.buf, r.n),
                 err |-> SourceError]
           ELSE [ds |-> [source |-> r.inner, block_counter |-> wrapping_add1(ds.block_counter),
                         is_finished |-> TRUE,
                         buffer |-> Take(ds.buffer, 2) \o to_be_bytes(wrapping_add1(ds.block_counter))
                                        \o r.buf],
                 ret |-> "err", bytes |-> << >>, err |-> r.err]
           : r \in { try_read_exact(ds.source, Drop(ds.buffer, 4), script) } })

\* DataStream::last_block
last_block(ds) == ds.block_counter


(***************************************************************************)
(* The socket wrapper (TFTPSocket) and the peer.                           *)
(***************************************************************************)
\* what UdpSocket::send may do with a datagram: report all its bytes sent,
\* report fewer bytes sent, or fail
SendOutcomes == { "ok", "short", "err" }

\* TFTPSocket::send_message (send_message_optionally_to with no address):
\* bytes are the bytes handed to UdpSocket::send; status is "ok", "err"
\* (with err) or "panic" (to_bytes(..).unwrap() on BufferTooSmall)
send_message(message, outcome) ==
    The({ IF ~enc.ok
          THEN [status |-> "panic", bytes |-> << >>, err |-> SendError]
          ELSE CASE outcome = "err" ->
                        [status |-> "err", bytes |-> enc.bytes, err |-> SendError]
                 [] outcome = "short" ->
                        [status |-> "err", bytes |-> enc.bytes,
                         err |-> IoError("Other", "send_message", << >>, << >>, << >>)]
                 [] OTHER ->
                        [status |-> "ok", bytes |-> enc.bytes, err |-> SendError]
          : enc \in { Packet_to_bytes(message, SockBufferSize) } })

\* a send whose failure is dropped with the count; C6 does not hold of it
send_raw_unchecked(frame, outcome) ==
    [status |-> "ok", bytes |-> frame, err |-> SendError]

\* UdpSocket::send(bytes)? of finish, line 148: the count of bytes sent is
\* dropped, only a failure of the send returns
send_raw(frame, outcome) ==
    IF outcome = "err" THEN [status |-> "err", bytes |-> frame, err |-> SendError]
    ELSE [status |-> "ok", bytes |-> frame, err |-> SendError]

\* TFTPSocket::get_next_message_from on what recv_from hands over: recv.ok
\* and the datagram, cut to the buffer's length; bytes is message_buffer
get_next_message_from(recv) ==
    IF ~recv.ok
    THEN [ok |-> FALSE, packet |-> DecodeErr(""), err |-> RecvError, bytes |-> << >>]
    ELSE The({ IF p.tag = "Err"
               THEN [ok |-> FALSE, packet |-> p,
                     err |-> IoError("InvalidData", "get_next_message_from",
                                     << >>, << >>, << >>),
                     bytes |-> Take(recv.datagram, SockBufferSize)]
               ELSE [ok |-> TRUE, packet |-> p, err |-> RecvError,
                     bytes |-> Take(recv.datagram, SockBufferSize)]
               : p \in { Packet_from_bytes(Take(recv.datagram, SockBufferSize)) } })

\* a check_ack that lets every packet but an Error pass; C3 does not hold
\* of it
check_ack_any_packet(reply, current_block) ==
    IF reply.tag = "Error"
    THEN [ok |-> FALSE,
          err |-> IoError("Other", "check_ack", ErrorCode_fmt(reply.error_code),
                          reply.message, << current_block >>)]
    ELSE [ok |-> TRUE, err |-> RecvError]

\* a check_ack that takes an Error packet for one more unexpected packet;
\* C4 does not hold of it
check_ack_error_unexpected(reply, current_block) ==
    IF reply.tag = "Ack" /\ reply.block_nr = current_block
    THEN [ok |-> TRUE, err |-> RecvError]
    ELSE [ok |-> FALSE,
          err |-> IoError("InvalidData", "check_ack", << >>, << >>,
                          << current_block >>)]

\* a check_ack that lets an Ack of any block pass; C7 does not hold of it
check_ack_any_block(reply, current_block) ==
    IF reply.tag = "Ack"
    THEN [ok |-> TRUE, err |-> RecvError]
    ELSE IF reply.tag = "Error"
    THEN [ok |-> FALSE,
          err |-> IoError("Other", "check_ack", ErrorCode_fmt(reply.error_code),
                          reply.message, << current_block >>)]
    ELSE [ok |-> FALSE,
          err |-> IoError("InvalidData", "check_ack", << >>, << >>,
                          << current_block >>)]

\* Transfer::check_ack
check_ack(reply, current_block) ==
    IF reply.tag = "Ack" /\ reply.block_nr = current_block
    THEN [ok |-> TRUE, err |-> RecvError]
    ELSE IF reply.tag = "Error"
    THEN [ok |-> FALSE,
          err |-> IoError("Other", "check_ack", ErrorCode_fmt(reply.error_code),
                          reply.message, << current_block >>)]
    ELSE [ok |-> FALSE,
          err |-> IoError("InvalidData", "check_ack", << >>, << >>,
                          << current_block >>)]

\* the datagrams of a well-formed peer
AckBytes(n) == << 0, 4 >> \o to_be_bytes(n)
ErrorBytes(code, message) == << 0, 5 >> \o to_be_bytes(code) \o message \o << 0 >>

\* what the peer may answer while the Ack of block n is awaited: the
\* matching Ack, other Acks, Error packets, packets of the other kinds and
\* datagrams that do not decode
PeerDatagrams(n) ==
    { AckBytes(n), AckBytes(0), AckBytes(wrapping_add1(n)), AckBytes(7),
      ErrorBytes(1, << 110, 111 >>), ErrorBytes(299, << >>),
      << 0, 3, 0, 1, 97 >>,
      << 0, 1, 102, 0 >> \o S_octet \o << 0 >>,
      << 0, 6 >> \o S_blksize \o << 0, 56, 0 >>,
      << >>, << 0, 4, 0 >>, << 0, 9, 0, 0 >>, << 0, 5, 0, 1, 120 >> }

\* An environment names what the source, the socket and the peer may do:
\* the read scripts of a next_raw, the outcomes of a send, and whether a
\* receive may bring every datagram of PeerDatagrams ("all") or only the
\* matching Ack and one other Ack ("few"); a receive may fail in both.
AnyEnv == [scripts |-> ReadScripts, sends |-> SendOutcomes, replies |-> "all"]
LeanEnv ==
    [scripts |-> { << >>, << "error" >> }, sends |-> { "ok", "err" }, replies |-> "few"]

\* what UdpSocket::recv_from may hand over
RecvOutcomes(env, n) ==
    { [ok |-> FALSE, datagram |-> << >>] }
        \cup { [ok |-> TRUE, datagram |-> d] :
                  d \in IF env.replies = "all" THEN PeerDatagrams(n)
                        ELSE { AckBytes(n), AckBytes(7) } }

(***************************************************************************)
(* State.  options, source and sock are the Transfer's fields, sock being  *)
(* the part of its TFTPSocket's buffer that the last call wrote (the       *)
(* packet encoded, or the datagram received); pc is the place finish has   *)
(* reached, bytes the frame next_raw returned, failure the source error    *)
(* next_raw returned, result what finish returned.  trace records the      *)
(* calls finish has made on the source and the socket, produced counts the *)
(* blocks next_raw has returned.  parked is a second Transfer, on a thread *)
(* that is not running, with the same fields, and its number in id.        *)
(***************************************************************************)
VARIABLES options, source, sock, pc, bytes, failure, result, trace, produced, codec,
          parked

vars ==
    << options, source, sock, pc, bytes, failure, result, trace, produced, codec, parked >>

\* longest trace recorded: every call of a transfer of at most MaxBlocks
\* blocks (three calls a block, the OptionAck round, the last next_raw)
MaxTrace == 3 * MaxBlocks + 3

Log(ev, b, res) ==
    trace' = IF Len(trace) < MaxTrace
             THEN Append(trace, [ev |-> ev, bytes |-> b, res |-> res])
             ELSE trace

Running == [status |-> "running", err |-> RecvError]
ResultOk == [status |-> "ok", err |-> RecvError]
ResultErr(e) == [status |-> "err", err |-> e]
Panicked == [status |-> "panic", err |-> RecvError]

\* a Transfer::new that reads in blocks of 512 bytes whatever its
\* OptionAck says; C28 does not hold of it
Transfer_new_default_blocksize(len, opts) ==
    /\ options = opts
    /\ source = DataStream_new([len |-> len, pos |-> 0], DefaultBlockSize)
    /\ sock = << >>
    /\ pc = "start"
    /\ bytes = << >>
    /\ failure = SourceError
    /\ result = Running
    /\ trace = << >>
    /\ produced = 0

\* Transfer::new
Transfer_new(len, opts) ==
    /\ options = opts
    /\ source = DataStream_new([len |-> len, pos |-> 0],
                    IF IsSome(opts.blocksize) THEN Unwrap(opts.blocksize)
                    ELSE DefaultBlockSize)
    /\ sock = << >>
    /\ pc = "start"
    /\ bytes = << >>
    /\ failure = SourceError
    /\ result = Running
    /\ trace = << >>
    /\ produced = 0

\* the sources and OptionAcks of the small transfers
SourceLengths == 0..MaxSrcLen \cup { DefaultBlockSize, DefaultBlockSize + 1 }
BlockSizes == { None, Some(1), Some(MinBlockSize), Some(MinBlockSize + 1) }
TransferSizes(len) == { None, Some(DecOfInt(len)) }
Timeouts == { None, Some(3) }
BlockSizeOf(b) == IF IsSome(b) THEN Unwrap(b) ELSE DefaultBlockSize


\* the OptionAcks a transfer of len bytes is made with: those of
\* OptionAck::new, and one read by Packet::from_bytes from bytes that live
\* as long as the program, whose one option ("x" = "1") the library does
\* not know
OptionAcks(len) ==
    { OptionAck_new(b, ts, t) : b \in BlockSizes, ts \in TransferSizes(len), t \in Timeouts }
        \cup { Packet_from_bytes(<< 0, 6, 120, 0, 49, 0 >>) }

\* no packet is being encoded or decoded
CodecIdle == [step |-> "idle"]
\* no second transfer
NoTransfer == [id |-> 0]

Init ==
    \E len \in SourceLengths :
        \E o \in OptionAcks(len) :
            /\ len \div BlockSizeOf(o.blocksize) + 1 <= MaxBlocks
            /\ Transfer_new(len, o)
            /\ codec = CodecIdle
    /\ parked = NoTransfer

\* a source of U16Modulus full blocks of the smallest block size and an
\* empty last block
InitWrap ==
    /\ Transfer_new(MinBlockSize * U16Modulus,
                    OptionAck_new(Some(MinBlockSize), None, None))
    /\ codec = CodecIdle
    /\ parked = NoTransfer

Return(r) ==
    /\ pc' = "done"
    /\ result' = r

\* finish, lines 129-130: the OptionAck is sent unless it is empty
Start(env) ==
    /\ pc = "start"
    /\ UNCHANGED << codec, parked >>
    /\ IF is_empty(options)
       THEN /\ pc' = "next_raw"
            /\ UNCHANGED << options, source, sock, bytes, failure, result, trace, produced >>
       ELSE \E outcome \in env.sends :
                \E s \in { send_message(options, outcome) } :
                   /\ sock' = s.bytes
                   /\ IF s.status = "panic" THEN Return(Panicked) /\ UNCHANGED trace
                      ELSE /\ Log("send", s.bytes, outcome)
                           /\ IF s.status = "ok"
                              THEN pc' = "recv_oack" /\ UNCHANGED result
                              ELSE Return(ResultErr(s.err))
                   /\ UNCHANGED << options, source, bytes, failure, produced >>

\* finish, lines 131-132 and 149-150: one reply is received and checked
\* against the block expected
AwaitAck(env, expected) ==
    \E recv \in RecvOutcomes(env, expected) :
        \E m \in { get_next_message_from(recv) } :
           /\ sock' = IF recv.ok THEN m.bytes ELSE sock
           /\ Log("recv", recv.datagram, IF recv.ok THEN "ok" ELSE "err")
           /\ IF ~m.ok THEN Return(ResultErr(m.err))
              ELSE \E c \in { check_ack(m.packet, expected) } :
                       IF ~c.ok THEN Return(ResultErr(c.err))
                       ELSE pc' = "next_raw" /\ UNCHANGED result
           /\ UNCHANGED << options, source, bytes, failure, produced >>

\* a finish that reads the source without the reply to its OptionAck; C1
\* does not hold of it
RecvOptionAck_not_awaited(env) ==
    /\ pc = "recv_oack"
    /\ UNCHANGED << codec, parked >>
    /\ pc' = "next_raw"
    /\ UNCHANGED << options, source, sock, bytes, failure, result, trace, produced >>

\* a finish that takes any packet for the answer to its OptionAck; C25
\* does not hold of it
RecvOptionAck_unchecked(env) ==
    /\ pc = "recv_oack"
    /\ UNCHANGED << codec, parked >>
    /\ \E recv \in RecvOutcomes(env, 0) :
           \E m \in { get_next_message_from(recv) } :
              /\ sock' = IF recv.ok THEN m.bytes ELSE sock
              /\ Log("recv", recv.datagram, IF recv.ok THEN "ok" ELSE "err")
              /\ IF ~m.ok THEN Return(ResultErr(m.err))
                 ELSE pc' = "next_raw" /\ UNCHANGED result
              /\ UNCHANGED << options, source, bytes, failure, produced >>

RecvOptionAck(env) ==
    /\ pc = "recv_oack"
    /\ UNCHANGED << codec, parked >>
    /\ AwaitAck(env, 0)

\* finish, lines 134-147: the loop asks the stream for the next block
NextRaw(env) ==
    /\ pc = "next_raw"
    /\ UNCHANGED << codec, parked >>
    /\ \E script \in env.scripts :
           \E r \in { next_raw(source, script) } :
              /\ source' = r.ds
              /\ Log("next_raw", r.bytes, r.ret)
              /\ CASE r.ret = "none" ->
                          /\ Return(ResultOk)
                          /\ UNCHANGED << bytes, failure, produced >>
                   [] r.ret = "some" ->
                          /\ pc' = "send_data"
                          /\ bytes' = r.bytes
                          /\ produced' = produced + 1
                          /\ UNCHANGED << failure, result >>
                   [] r.ret = "err" ->
                          /\ pc' = "notify"
                          /\ failure' = r.err
                          /\ UNCHANGED << bytes, result, produced >>
              /\ UNCHANGED << options, sock >>

\* a finish that returns the error of the notification when its send
\* fails; C5 does not hold of it
Notify_send_error_returned(env) ==
    /\ pc = "notify"
    /\ UNCHANGED << codec, parked >>
    /\ \E outcome \in env.sends :
           \E s \in { send_message(new_error(0, S_unexpected_io), outcome) } :
              /\ sock' = s.bytes
              /\ IF s.status = "panic" THEN Return(Panicked) /\ UNCHANGED trace
                 ELSE /\ Log("send", s.bytes, outcome)
                      /\ IF s.status = "ok" THEN Return(ResultErr(failure))
                         ELSE Return(ResultErr(s.err))
              /\ UNCHANGED << options, source, bytes, failure, produced >>

\* finish, lines 139-145: the peer is told of the source's failure, and the
\* source's error is returned whatever became of the send
Notify(env) ==
    /\ pc = "notify"
    /\ UNCHANGED << codec, parked >>
    /\ \E outcome \in env.sends :
           \E s \in { send_message(new_error(0, S_unexpected_io), outcome) } :
              /\ sock' = s.bytes
              /\ IF s.status = "panic" THEN Return(Panicked) /\ UNCHANGED trace
                 ELSE Log("send", s.bytes, outcome) /\ Return(ResultErr(failure))
              /\ UNCHANGED << options, source, bytes, failure, produced >>

\* a finish that asks for the next block once a block is sent, its Ack
\* not awaited; C2 does not hold of it
SendData_pipelined(env) ==
    /\ pc = "send_data"
    /\ UNCHANGED << codec, parked >>
    /\ \E outcome \in env.sends \ { "short" } :
           \E s \in { send_raw(bytes, outcome) } :
              /\ Log("send", s.bytes, outcome)
              /\ IF s.status = "ok" THEN pc' = "next_raw" /\ UNCHANGED result
                 ELSE Return(ResultErr(s.err))
              /\ UNCHANGED << options, source, sock, bytes, failure, produced >>

\* finish, line 148: the frame goes to the socket as it is
SendData(env) ==
    /\ pc = "send_data"
    /\ UNCHANGED << codec, parked >>
    /\ \E outcome \in env.sends \ { "short" } :
           \E s \in { send_raw(bytes, outcome) } :
              /\ Log("send", s.bytes, outcome)
              /\ IF s.status = "ok" THEN pc' = "recv_ack" /\ UNCHANGED result
                 ELSE Return(ResultErr(s.err))
              /\ UNCHANGED << options, source, sock, bytes, failure, produced >>

\* a finish that sends the block again when no reply comes; C8 does not
\* hold of it
RecvAck_resending(env) ==
    /\ pc = "recv_ack"
    /\ UNCHANGED << codec, parked >>
    /\ \/ /\ Log("recv", << >>, "err")
          /\ pc' = "send_data"
          /\ UNCHANGED << options, source, sock, bytes, failure, result, produced >>
       \/ AwaitAck(env, last_block(source))

\* finish, lines 149-150
RecvAck(env) ==
    /\ pc = "recv_ack"
    /\ UNCHANGED << codec, parked >>
    /\ AwaitAck(env, last_block(source))

\* Transfer::finish, one call on the source or the socket at a time
Step(env) ==
    \/ Start(env)
    \/ RecvOptionAck(env)
    \/ NextRaw(env)
    \/ Notify(env)
    \/ SendData(env)
    \/ RecvAck(env)

Next == Step(AnyEnv)

Spec == Init /\ [][Next]_vars

\* the long transfer in which the block counter wraps
NextWrap == Step(LeanEnv)

SpecWrap == InitWrap /\ [][NextWrap]_vars

(***************************************************************************)
(* Two transfers, each on a thread of its own (the server of the example   *)
(* spawns one thread for every transfer and calls finish on it).  The      *)
(* Transfer of the thread that runs is in the variables of the transfer,   *)
(* the other one is parked.                                                *)
(***************************************************************************)
\* a transfer just made, as the record of its fields
NewTransfer(id, len, opts) ==
    [id |-> id, options |-> opts,
     source |-> DataStream_new([len |-> len, pos |-> 0], BlockSizeOf(opts.blocksize)),
     sock |-> << >>, pc |-> "start", bytes |-> << >>, failure |-> SourceError,
     result |-> Running, trace |-> << >>, produced |-> 0]

\* the transfers of the pair: no byte or a block and a byte more, without
\* options or with the smallest block size
PairLengths == { 0, MinBlockSize + 1 }
PairOptions == { OptionAck_new(None, None, None), OptionAck_new(Some(MinBlockSize), None, None) }

InitPair ==
    \E l1, l2 \in PairLengths :
        \E o1, o2 \in PairOptions :
            /\ Transfer_new(l1, o1)
            /\ parked = NewTransfer(2, l2, o2)
            /\ codec = CodecIdle

\* the Transfer of the thread that runs, as the record of its fields
Current ==
    [id |-> 3 - parked.id, options |-> options, source |-> source, sock |-> sock,
     pc |-> pc, bytes |-> bytes, failure |-> failure, result |-> result,
     trace |-> trace, produced |-> produced]

\* a Switch that leaves the DataStream where it is: the two transfers read
\* one stream
Switch_shared_source ==
    /\ parked.id # 0
    /\ parked' = [Current EXCEPT !.source = parked.source]
    /\ options' = parked.options
    /\ source' = source
    /\ sock' = parked.sock
    /\ pc' = parked.pc
    /\ bytes' = parked.bytes
    /\ failure' = parked.failure
    /\ result' = parked.result
    /\ trace' = parked.trace
    /\ produced' = parked.produced
    /\ UNCHANGED codec

\* the other thread is given the processor: its Transfer is the one that
\* runs from here on, with the fields it had when it was parked
Switch ==
    /\ parked.id # 0
    /\ parked' = Current
    /\ options' = parked.options
    /\ source' = parked.source
    /\ sock' = parked.sock
    /\ pc' = parked.pc
    /\ bytes' = parked.bytes
    /\ failure' = parked.failure
    /\ result' = parked.result
    /\ trace' = parked.trace
    /\ produced' = parked.produced
    /\ UNCHANGED codec

NextPair ==
    \/ Start(LeanEnv)
    \/ RecvOptionAck(LeanEnv)
    \/ NextRaw(LeanEnv)
    \/ Notify(LeanEnv)
    \/ SendData(LeanEnv)
    \/ RecvAck(LeanEnv)
    \/ Switch

SpecPair == InitPair /\ [][NextPair]_vars

(***************************************************************************)
(* A DataStream on its own: next_raw is called again and again, also       *)
(* after it has returned a short block, an error or None.  An entry of    *)
(* the trace tells, next to what next_raw returned, the outcomes of the   *)
(* read() calls the source had in store for it.                           *)
(***************************************************************************)
\* longest source of the stream, in bytes
MaxStreamLen == 8
\* most calls of next_raw on the stream
MaxPulls == 5
\* the block sizes of tests::datastream_blocksize that the sources reach
StreamBlockSizes == { 0, 3, 4, 7 }
\* the read() outcomes of one next_raw: all bytes at once, a byte at a
\* time, Interrupted or WouldBlock before or between reads that bring
\* bytes, or an error before or after bytes have come
StreamScripts ==
    { << >>, << "short" >>, << "interrupted" >>, << "wouldblock" >>,
      << "short", "interrupted" >>, << "error" >>, << "short", "error" >> }

InitStream ==
    /\ \E len \in 0..MaxStreamLen : \E bs \in StreamBlockSizes :
           source = DataStream_new([len |-> len, pos |-> 0], bs)
    /\ options = OptionAck_new(None, None, None)
    /\ sock = << >>
    /\ pc = "stream"
    /\ bytes = << >>
    /\ failure = SourceError
    /\ result = Running
    /\ trace = << >>
    /\ produced = 0
    /\ codec = CodecIdle
    /\ parked = NoTransfer

\* one call of DataStream::next_raw
PullNext ==
    /\ pc = "stream"
    /\ Len(trace) < MaxPulls
    /\ \E script \in StreamScripts :
           \E r \in { next_raw(source, script) } :
              /\ source' = r.ds
              /\ trace' = Append(trace,
                                 [ev |-> "next_raw", bytes |-> r.bytes, res |-> r.ret,
                                  reads |-> IF source.is_finished THEN << >> ELSE script])
              /\ bytes' = IF r.ret = "some" THEN r.bytes ELSE bytes
              /\ produced' = IF r.ret = "some" THEN produced + 1 ELSE produced
              /\ failure' = IF r.ret = "err" THEN r.err ELSE failure
    /\ UNCHANGED << options, sock, pc, result, codec, parked >>

NextStream == PullNext

SpecStream == InitStream /\ [][NextStream]_vars

(***************************************************************************)
(* A DataStream that is drained: next_raw is called until it returns None, *)
(* as the loop of Transfer::finish does, over a source that never fails.   *)
(* No call is recorded, so that the state is the stream's alone.           *)
(***************************************************************************)
\* the read() outcomes of a source that does not fail
DrainScripts == { << >>, << "short" >>, << "interrupted" >> }

InitDrain ==
    /\ \E len \in { 0, MaxStreamLen } : \E bs \in StreamBlockSizes :
           source = DataStream_new([len |-> len, pos |-> 0], bs)
    /\ options = OptionAck_new(None, None, None)
    /\ sock = << >>
    /\ pc = "drain"
    /\ bytes = << >>
    /\ failure = SourceError
    /\ result = Running
    /\ trace = << >>
    /\ produced = 0
    /\ codec = CodecIdle
    /\ parked = NoTransfer

\* one turn of the loop: next_raw is called, and the loop ends on None
Drain ==
    /\ pc = "drain"
    /\ \E script \in DrainScripts :
           \E r \in { next_raw(source, script) } :
              /\ source' = r.ds
              /\ bytes' = IF r.ret = "some" THEN r.bytes ELSE bytes
              /\ pc' = IF r.ret = "none" THEN "done" ELSE "drain"
    /\ UNCHANGED << options, sock, failure, result, trace, produced, codec, parked >>

NextDrain == Drain

\* the loop goes on as long as next_raw has not returned None
SpecDrain == InitDrain /\ [][NextDrain]_vars /\ WF_vars(Drain)


(***************************************************************************)
(* The codec on its own: a packet value is encoded into a buffer, one      *)
(* push of the writer at a time, and the bytes written are decoded; or     *)
(* bytes from the wire are decoded.                                        *)
(* codec is [step, kind, packet, buflen, w, stmts, enc, head, opts, wire,  *)
(* dec, scan, calls]: kind tells where the input came from ("packet",      *)
(* "raw" bytes, a "text" region, or "options" and "modes": a wire built   *)
(* from the header head and the option pairs opts).                       *)
(***************************************************************************)
\* longest encode buffer is one byte longer than the encoding of its
\* packet in a buffer of BigBuffer bytes
BigBuffer == 64
\* longest wire whose bytes are chosen freely
MaxRawLen == 4
\* most calls of unknown_options on one decoded packet
MaxCalls == 2

\* text as a caller may hand it to a constructor (any &str): empty, "f",
\* "no", "a", NUL, "b", and U+00E9 in UTF-8
Texts == { << >>, << 102 >>, << 110, 111 >>, << 97, 0, 98 >>, << 195, 169 >> }

DataPackets ==
    { new_data(b, d) : b \in { 0, 1, 65535 },
                       d \in { << >>, << 0 >>, << 97, 0, 255 >> } }
AckPackets == { new_ack(b) : b \in { 0, 1, 258, 65535 } }
ErrorPackets == { new_error(c, m) : c \in { 0, 1, 299 }, m \in Texts }
\* requests of the constructors, and two whose public fields
\* include_transfer_size and timeout_seconds were set afterwards
RequestPackets ==
    { new_request(f, b, r) :
          f \in Texts \ { << 110, 111 >> },
          b \in { None, Some(7), Some(MinBlockSize), Some(DefaultBlockSize),
                  Some(MaxBlockSize), Some(65535) },
          r \in BOOLEAN }
    \cup { [new_read_request(<< 102 >>, b) EXCEPT !.include_transfer_size = TRUE,
                                                  !.timeout_seconds = t] :
              b \in { None, Some(MinBlockSize) }, t \in { None, Some(3) } }
OptionAckPackets ==
    { OptionAck_new(b, ts, t) :
          b \in { None, Some(7), Some(MinBlockSize), Some(MaxBlockSize) },
          ts \in { None, Some(<< 0 >>), Some(<< 5 >>), Some(U64Max) },
          t \in { None, Some(1), Some(255) } }
Packets == DataPackets \cup AckPackets \cup ErrorPackets \cup RequestPackets
               \cup OptionAckPackets

\* length of the encoding of p
EncodedLen(p) == Len(Packet_to_bytes(p, BigBuffer).bytes)
BufLens(p) == 0..Min(BigBuffer, EncodedLen(p) + 1)

\* bytes of the wires chosen freely
RawBytes == { 0, 1, 3, 4, 5, 6, 9, 97 }
RawWires == SeqsUpTo(RawBytes, MaxRawLen)
\* bytes of the regions scanned for a text: the terminator, the bytes at
\* both ends of 32..=127, and their neighbours outside
TextBytes == { 0, 31, 32, 97, 127, 128 }
TextRegions == SeqsUpTo(TextBytes, MaxRawLen)

\* option names and values on the wire
S_BLKSIZE == << 66, 76, 75, 83, 73, 90, 69 >>
S_TsIzE == << 84, 115, 73, 122, 69 >>
S_Timeout == << 84, 105, 109, 101, 111, 117, 116 >>
OptionNames == { S_blksize, S_BLKSIZE, S_tsize, S_TsIzE, S_timeout, S_Timeout, << 120 >> }
\* "7", "8", "65464", "65465", "4294967295", "4294967296", "0", "00", "008",
\* "1", "5", "255", "256", u64::MAX and one more, then "+8", "-1", "abc", ""
OptionValues ==
    { FormatDec(ds) :
          ds \in { << 7 >>, << 8 >>, DecOfInt(MaxBlockSize), DecOfInt(MaxBlockSize + 1),
                   U32Max, << 4, 2, 9, 4, 9, 6, 7, 2, 9, 6 >>, << 0 >>, << 0, 0 >>,
                   << 0, 0, 8 >>, << 1 >>, << 5 >>, << 2, 5, 5 >>, << 2, 5, 6 >>, U64Max,
                   << 1, 8, 4, 4, 6, 7, 4, 4, 0, 7, 3, 7, 0, 9, 5, 5, 1, 6, 1, 6 >> } }
    \cup { << 43, 56 >>, << 45, 49 >>, << 97, 98, 99 >>, << >> }
SecondValues == { << 56 >>, << 48 >>, << 49 >>, << 97, 98, 99 >> }
\* options that a Request and an OptionAck both take: blksize 8, tsize 0,
\* timeout 1
ValidOptions ==
    { [name |-> S_blksize, value |-> << 56 >>], [name |-> S_tsize, value |-> << 48 >>],
      [name |-> S_timeout, value |-> << 49 >>] }
UnknownOption == [name |-> << 120 >>, value |-> << 97, 98, 99 >>]
OptionLists ==
    { << >> }
    \cup { << [name |-> n, value |-> v] >> : n \in OptionNames, v \in OptionValues }
    \cup { << [name |-> n, value |-> v], [name |-> n2, value |-> v2] >> :
              n \in OptionNames, v \in OptionValues,
              n2 \in OptionNames, v2 \in SecondValues }
    \cup { << a, b, [name |-> n, value |-> v] >> :
              a \in ValidOptions, b \in ValidOptions \cup { UnknownOption },
              n \in OptionNames, v \in SecondValues }

\* the headers before the options: a read request and a write request for
\* "f" in mode octet, and an OptionAck
Heads ==
    { [opcode |-> 1, filename |-> << 102 >>, mode |-> S_octet],
      [opcode |-> 2, filename |-> << 102 >>, mode |-> << 79, 67, 84, 69, 84 >>],
      [opcode |-> 6, filename |-> << >>, mode |-> << >>] }
\* requests in other modes: "octets", "netascii", "", for "f" and for ""
S_netascii == << 110, 101, 116, 97, 115, 99, 105, 105 >>
ModeHeads ==
    { [opcode |-> 1, filename |-> f, mode |-> m] :
          f \in { << 102 >>, << >> }, m \in { S_octets, S_netascii, << >> } }
\* ... with no option, with one the decoder takes, or with blksize "7"
ModeOptionLists ==
    { << >>, << [name |-> S_blksize, value |-> << 55 >>] >> }
    \cup { << a >> : a \in ValidOptions \cup { UnknownOption } }

RECURSIVE OptionBytes(_)
OptionBytes(opts) ==
    IF Len(opts) = 0 THEN << >>
    ELSE Head(opts).name \o << 0 >> \o Head(opts).value \o << 0 >>
             \o OptionBytes(Tail(opts))
WireOf(head, opts) ==
    to_be_bytes(head.opcode)
        \o (IF head.opcode = 6 THEN << >>
            ELSE head.filename \o << 0 >> \o head.mode \o << 0 >>)
        \o OptionBytes(opts)

NoPacket == [tag |-> "none"]
NoHead == [opcode |-> 0, filename |-> << >>, mode |-> << >>]
CodecInput(kind, packet, buflen, head, opts, wire) ==
    [step |-> IF kind \in { "packet", "text" } THEN kind ELSE "wire",
     kind |-> kind, packet |-> packet, buflen |-> buflen,
     w |-> BufferWriter_new(buflen), stmts |-> << >>, enc |-> EncodeErr,
     head |-> head, opts |-> opts, wire |-> wire, dec |-> DecodeErr(""),
     scan |-> [ok |-> FALSE, panic |-> FALSE, str |-> << >>, rest |-> << >>],
     calls |-> << >>]

InitCodec ==
    /\ Transfer_new(0, OptionAck_new(None, None, None))
    /\ parked = NoTransfer
    /\ \/ \E p \in Packets : \E n \in BufLens(p) :
             codec = CodecInput("packet", p, n, NoHead, << >>, << >>)
       \/ \E d \in RawWires :
             codec = CodecInput("raw", NoPacket, 0, NoHead, << >>, d)
       \/ \E h \in Heads : \E o \in OptionLists :
             codec = CodecInput("options", NoPacket, 0, h, o, WireOf(h, o))
       \/ \E h \in ModeHeads : \E o \in ModeOptionLists :
             codec = CodecInput("modes", NoPacket, 0, h, o, WireOf(h, o))
       \/ \E d \in TextRegions :
             codec = CodecInput("text", NoPacket, 0, NoHead, << >>, d)

TransferIdle ==
    UNCHANGED << options, source, sock, pc, bytes, failure, result, trace, produced,
                 parked >>

\* Packet::to_bytes of a Data, Ack or Error packet
EncodeFixed ==
    /\ codec.step = "packet"
    /\ codec.packet.tag \in { "Data", "Ack", "Error" }
    /\ \E e \in { Packet_to_bytes(codec.packet, codec.buflen) } :
           codec' = [codec EXCEPT !.step = "encoded", !.enc = e, !.wire = e.bytes]
    /\ TransferIdle

\* Request::to_bytes and OptionAck::to_bytes: BufferWriter::new(buf)
BeginWrite ==
    /\ codec.step = "packet"
    /\ codec.packet.tag \in { "Request", "OptionAck" }
    /\ codec' = [codec EXCEPT !.step = "writing",
                              !.stmts = IF codec.packet.tag = "Request"
                                        THEN Request_stmts(codec.packet)
                                        ELSE OptionAck_stmts(codec.packet)]
    /\ TransferIdle

\* the next push_bytes or push_byte of the to_bytes, or the next write_str
\* of its write!, which gives up at the first write_str that overflowed
Push ==
    /\ codec.step = "writing"
    /\ Len(codec.stmts) > 0
    /\ \E st \in { Head(codec.stmts) } :
          IF st.op = "write"
          THEN \E w1 \in { push_bytes(codec.w, Head(st.arg)) } :
                  codec' = [codec EXCEPT
                      !.w = w1,
                      !.stmts = IF w1.overflowed \/ w1.panicked \/ Len(st.arg) = 1
                                THEN Tail(codec.stmts)
                                ELSE << [op |-> "write", arg |-> Tail(st.arg)] >>
                                         \o Tail(codec.stmts)]
          ELSE codec' = [codec EXCEPT !.w = exec(codec.w, st),
                                      !.stmts = Tail(codec.stmts)]
    /\ TransferIdle

\* the end of Request::to_bytes and OptionAck::to_bytes
FinishWrite ==
    /\ codec.step = "writing"
    /\ Len(codec.stmts) = 0
    /\ \E e \in { Finish(codec.w) } :
           codec' = [codec EXCEPT !.step = "encoded", !.enc = e, !.wire = e.bytes]
    /\ TransferIdle

\* Packet::from_bytes on the bytes encoded or on the bytes of the wire
Decode ==
    /\ \/ codec.step = "wire"
       \/ codec.step = "encoded" /\ codec.enc.ok
    /\ codec' = [codec EXCEPT !.step = "decoded", !.dec = Packet_from_bytes(codec.wire)]
    /\ TransferIdle

\* printable_ascii_str_from_u8 on a region of a packet
ScanText ==
    /\ codec.step = "text"
    /\ codec' = [codec EXCEPT !.step = "scanned",
                              !.scan = printable_ascii_str_from_u8(codec.wire)]
    /\ TransferIdle

\* unknown_options() on the Request or OptionAck decoded, collected
UnknownOptions ==
    /\ codec.step = "decoded"
    /\ codec.dec.tag \in { "Request", "OptionAck" }
    /\ Len(codec.calls) < MaxCalls
    /\ codec' = [codec EXCEPT !.calls = Append(codec.calls, unknown_options(codec.dec))]
    /\ TransferIdle

NextCodec ==
    \/ UnknownOptions
    \/ ScanText
    \/ EncodeFixed
    \/ BeginWrite
    \/ Push
    \/ FinishWrite
    \/ Decode

SpecCodec == InitCodec /\ [][NextCodec]_vars

(***************************************************************************)
(* The socket wrapper on its own: one packet is handed to send_message,    *)
(* send_message_to or Server::send_error_to, all of which are              *)
(* send_message_optionally_to.  codec holds the packet.                    *)
(***************************************************************************)
\* a message that a caller gives to an Error packet, as long as the
\* wrapper's buffer
LongMessage == [i \in 1..SockBufferSize |-> 97]
\* the packets handed to the wrapper
Messages == Packets \cup { new_error(c, LongMessage) : c \in { 0, 1 } }

InitSend ==
    /\ Transfer_new(0, OptionAck_new(None, None, None))
    /\ parked = NoTransfer
    /\ \E p \in Messages : codec = [step |-> "message", packet |-> p]

\* TFTPSocket::send_message_optionally_to
SendMessage ==
    /\ codec.step = "message"
    /\ pc = "start"
    /\ \E outcome \in SendOutcomes :
           \E s \in { send_message(codec.packet, outcome) } :
              /\ sock' = s.bytes
              /\ IF s.status = "panic" THEN Return(Panicked) /\ UNCHANGED trace
                 ELSE /\ Log("send", s.bytes, outcome)
                      /\ IF s.status = "ok" THEN Return(ResultOk)
                         ELSE Return(ResultErr(s.err))
    /\ UNCHANGED << options, source, bytes, failure, produced, codec, parked >>

NextSend == SendMessage

SpecSend == InitSend /\ [][NextSend]_vars

\* the pushes of the writer one at a time end as to_bytes does
StepwiseEncoding ==
    codec.step \in { "encoded", "decoded" } /\ codec.kind = "packet" =>
        codec.enc = Packet_to_bytes(codec.packet, codec.buflen)


(***************************************************************************)
(* Reading the trace.                                                      *)
(***************************************************************************)
\* the packet a send or a receive of the trace carried, as the codec reads it
Decoded(e) == Packet_from_bytes(e.bytes)

\* the kind of packet the opcode of a datagram announces
KindOf(b) ==
    IF Len(b) < 2 THEN "none"
    ELSE CASE from_be_bytes(b[1], b[2]) = 3 -> "Data"
           [] from_be_bytes(b[1], b[2]) = 5 -> "Error"
           [] from_be_bytes(b[1], b[2]) = 6 -> "OptionAck"
           [] OTHER -> "other"

\* a send of a datagram of the given kind, whatever became of it
IsSendOf(e, tag) == e.ev = "send" /\ KindOf(e.bytes) = tag

\* a receive that brought a datagram
IsReply(e) == e.ev = "recv" /\ e.res = "ok"

\* a receive that brought an Ack of block b
IsRecvAck(e, b) ==
    IsReply(e) /\ Decoded(e).tag = "Ack" /\ Decoded(e).block_nr = b

\* the block whose Ack the receive at place k of the trace awaits: that of
\* the Data block sent at k - 1, or 0 after the OptionAck
Awaited(k) ==
    IF KindOf(trace[k - 1].bytes) = "Data" THEN Decoded(trace[k - 1]).block_nr ELSE 0

\* finish has returned the error e, and the call at place k was its last
ReturnedAt(k, e) ==
    /\ k = Len(trace)
    /\ pc = "done"
    /\ result = ResultErr(e)

\* every call of the transfer is in the trace
TraceComplete == pc # "done" => Len(trace) < MaxTrace

\* C1: with an OptionAck that has an option set, the first datagram sent is
\* that OptionAck, and the source is not read and no Data block is sent
\* before an Ack of block 0 has been received.
C1_OptionAckBeforeData ==
    ~is_empty(options) =>
        /\ Len(trace) >= 1 =>
              /\ trace[1].ev = "send"
              /\ trace[1].bytes = Packet_to_bytes(options, SockBufferSize).bytes
              /\ KindOf(trace[1].bytes) = "OptionAck"
              /\ Decoded(trace[1]).tag = "OptionAck" =>
                    /\ Decoded(trace[1]).blocksize = options.blocksize
                    /\ Decoded(trace[1]).transfer_size = options.transfer_size
                    /\ Decoded(trace[1]).timeout_seconds = options.timeout_seconds
        /\ \A i \in 1..Len(trace) :
              (trace[i].ev = "next_raw" \/ IsSendOf(trace[i], "Data")) =>
                  \E j \in 1..(i - 1) : IsRecvAck(trace[j], 0)
        /\ (\A j \in 1..Len(trace) : ~IsRecvAck(trace[j], 0)) =>
              /\ source.source.pos = 0
              /\ source.block_counter = 0
              /\ produced = 0

C1_Witness ==
    /\ ~is_empty(options)
    /\ \E i \in 1..Len(trace) : IsSendOf(trace[i], "Data")

\* C2: sends and receives alternate.  Between two sends there is a receive
\* that brought a reply, a Data block is sent only right after the call
\* of next_raw that follows the Ack of the datagram sent before it (the
\* block number of that Data block, 0 for the OptionAck), and the Data
\* blocks sent are at most one more than the Acks received.
C2_Alternation ==
    /\ \A i, j \in 1..Len(trace) :
          (i < j /\ trace[i].ev = "send" /\ trace[j].ev = "send") =>
              \E k \in (i + 1)..(j - 1) : IsReply(trace[k])
    /\ \A j \in 1..Len(trace) :
          (IsSendOf(trace[j], "Data") /\ \E i \in 1..(j - 1) : trace[i].ev = "send") =>
              /\ j >= 4
              /\ trace[j - 1].ev = "next_raw"
              /\ trace[j - 3].ev = "send"
              /\ IsRecvAck(trace[j - 2], Awaited(j - 2))
    /\ Cardinality({ j \in 1..Len(trace) : IsSendOf(trace[j], "Data") })
          <= Cardinality({ k \in 1..Len(trace) :
                              IsReply(trace[k]) /\ Decoded(trace[k]).tag = "Ack" }) + 1

C2_Witness ==
    \E i, j \in 1..Len(trace) :
        /\ i < j
        /\ IsSendOf(trace[i], "Data")
        /\ IsSendOf(trace[j], "Data")

\* C3: a reply that is an Ack of another block than the awaited one, or a
\* Data, Request or OptionAck packet, is the transfer's last call: finish
\* returns an error of kind InvalidData made by check_ack.
C3_SequencingError ==
    \A k \in 2..Len(trace) :
        (/\ IsReply(trace[k])
         /\ \/ Decoded(trace[k]).tag \in { "Data", "Request", "OptionAck" }
            \/ Decoded(trace[k]).tag = "Ack" /\ Decoded(trace[k]).block_nr # Awaited(k))
        => /\ trace[k - 1].ev = "send"
           /\ ReturnedAt(k, IoError("InvalidData", "check_ack", << >>, << >>,
                                    << Awaited(k) >>))

C3_Witness ==
    /\ Len(trace) >= 2
    /\ IsSendOf(trace[Len(trace) - 1], "Data")
    /\ IsRecvAck(trace[Len(trace)], 7)
    /\ Awaited(Len(trace)) = 1
    /\ result.status = "err"
    /\ result.err.kind = "InvalidData"

\* the error codes ErrorCode_fmt is compared on
ErrorCodes == 0..9 \cup { 299 }

\* C4: an Error packet received for an awaited Ack is the transfer's last
\* call: finish returns an error of kind Other that holds the text of the
\* peer's error code, which no other code has, and the peer's message.
C4_PeerError ==
    \A k \in 2..Len(trace) :
        (IsReply(trace[k]) /\ Decoded(trace[k]).tag = "Error") =>
            /\ trace[k - 1].ev = "send"
            /\ k = Len(trace)
            /\ pc = "done"
            /\ result.status = "err"
            /\ result.err.kind = "Other"
            /\ result.err.kind # "InvalidData"
            /\ result.err.message = Decoded(trace[k]).message
            /\ result.err.code = ErrorCode_fmt(Decoded(trace[k]).error_code)
            /\ \A c \in ErrorCodes :
                  ErrorCode_fmt(c) = result.err.code => c = Decoded(trace[k]).error_code

C4_Witness ==
    /\ Len(trace) >= 2
    /\ IsSendOf(trace[Len(trace) - 1], "Data")
    /\ IsReply(trace[Len(trace)])
    /\ Decoded(trace[Len(trace)]).tag = "Error"
    /\ Decoded(trace[Len(trace)]).error_code = 299
    /\ result.status = "err"
    /\ result.err.kind = "Other"

\* C5: after a next_raw that returned the source's error there is one more
\* call and no other: the send of an Error packet of code 0, and finish
\* returns the source's error once that send has been tried, whatever
\* became of it.
C5_SourceError ==
    \A k \in 1..Len(trace) :
        (trace[k].ev = "next_raw" /\ trace[k].res = "err") =>
            /\ Len(trace) <= k + 1
            /\ Len(trace) = k => pc = "notify" /\ failure = SourceError
            /\ Len(trace) = k + 1 =>
                  /\ IsSendOf(trace[k + 1], "Error")
                  /\ Decoded(trace[k + 1]).error_code = 0
                  /\ pc = "done"
                  /\ result = ResultErr(SourceError)

C5_Witness ==
    /\ Len(trace) >= 2
    /\ trace[Len(trace) - 1].ev = "next_raw"
    /\ trace[Len(trace) - 1].res = "err"
    /\ trace[Len(trace)].ev = "send"
    /\ trace[Len(trace)].res = "err"
    /\ result = ResultErr(SourceError)
    /\ produced >= 1

\* C6: a send of the OptionAck or of a Data block that fails, and a receive
\* that fails, is the transfer's last call, and finish returns its error.
C6_TransportError ==
    \A k \in 1..Len(trace) :
        /\ (trace[k].ev = "send" /\ trace[k].res = "err"
                /\ KindOf(trace[k].bytes) \in { "OptionAck", "Data" })
              => ReturnedAt(k, SendError)
        /\ (trace[k].ev = "recv" /\ trace[k].res = "err")
              => ReturnedAt(k, RecvError)

C6_Witness ==
    /\ Len(trace) >= 1
    /\ IsSendOf(trace[Len(trace)], "Data")
    /\ trace[Len(trace)].res = "err"
    /\ result = ResultErr(SendError)

\* the frame of Data block b of a source of len bytes read in blocks of
\* size bs: opcode 3, the block number, the block's bytes of the source
FrameOf(b, len, bs) ==
    << 0, 3 >> \o to_be_bytes(b % U16Modulus)
        \o [i \in 1..Min(bs, len - (b - 1) * bs) |-> SourceByte((b - 1) * bs + i)]

\* finish has returned success, its last three calls being the send of a
\* Data block shorter than the block size, the receive of the Ack of that
\* block, and the next_raw that found the stream finished
SuccessAfterTerminalAck ==
    LET n == Len(trace) IN
    /\ pc = "done"
    /\ n >= 3
    /\ trace[n].ev = "next_raw" /\ trace[n].res = "none"
    /\ IsSendOf(trace[n - 2], "Data") /\ trace[n - 2].res # "err"
    /\ Len(Decoded(trace[n - 2]).data) < blocksize(source)
    /\ IsRecvAck(trace[n - 1], Decoded(trace[n - 2]).block_nr)

\* the calls of a transfer of one block without options
OneBlockTrace ==
    LET frame == FrameOf(1, source.source.len, blocksize(source)) IN
    /\ Len(trace) = 4
    /\ trace[1] = [ev |-> "next_raw", bytes |-> frame, res |-> "some"]
    /\ trace[2].ev = "send" /\ trace[2].bytes = frame /\ trace[2].res # "err"
    /\ IsRecvAck(trace[3], 1)
    /\ trace[4] = [ev |-> "next_raw", bytes |-> << >>, res |-> "none"]
    /\ Decoded(trace[2]).tag = "Data"
    /\ Decoded(trace[2]).block_nr = 1
    /\ Len(Decoded(trace[2]).data) = source.source.len

\* C7: finish returns success only after the terminal block was sent and
\* its Ack received; without options and with a source shorter than the
\* block size the transfer is one Data block, block 1 with the whole
\* source, and its Ack; and once finish has returned the transfer makes
\* no step.
C7_SuccessOnlyAfterTerminalAck ==
    /\ [](result.status = "ok" =>
            /\ SuccessAfterTerminalAck
            /\ (is_empty(options) /\ source.source.len < blocksize(source))
                  => OneBlockTrace)
    /\ [][result.status = "running" /\ pc # "done"]_vars

C7_Witness ==
    /\ result.status = "ok"
    /\ is_empty(options)
    /\ source.source.len = 5
    /\ blocksize(source) = DefaultBlockSize
    /\ OneBlockTrace

\* the places of the trace where next_raw handed out a block
Pulled == { i \in 1..Len(trace) : trace[i].ev = "next_raw" /\ trace[i].res = "some" }

\* C8: nothing is sent twice.  A Data block is sent right after the
\* next_raw that handed it out and only then, the OptionAck is sent only
\* as the first call, and a receive that fails ends the transfer with its
\* error.
C8_NoRetransmission ==
    /\ \A j \in 1..Len(trace) :
          IsSendOf(trace[j], "Data") =>
              /\ j - 1 \in Pulled
              /\ trace[j - 1].bytes = trace[j].bytes
    /\ \A i \in Pulled :
          Cardinality({ j \in (i + 1)..Len(trace) :
                           /\ IsSendOf(trace[j], "Data")
                           /\ \A m \in (i + 1)..j : m \notin Pulled }) <= 1
    /\ \A j \in 2..Len(trace) : ~IsSendOf(trace[j], "OptionAck")
    /\ \A k \in 1..Len(trace) :
          (trace[k].ev = "recv" /\ trace[k].res = "err") =>
              /\ k = Len(trace)
              /\ pc = "done"
              /\ result.status = "err"

C8_Witness ==
    /\ Len(trace) >= 3
    /\ trace[Len(trace)].ev = "recv"
    /\ trace[Len(trace)].res = "err"
    /\ IsSendOf(trace[Len(trace) - 1], "Data")
    /\ Len(trace) - 2 \in Pulled
    /\ pc = "done"
    /\ result = ResultErr(RecvError)

\* the source has not failed
SourceNeverFailed ==
    \A i \in 1..Len(trace) : ~(trace[i].ev = "next_raw" /\ trace[i].res = "err")

\* C9: of a source of N bytes that does not fail, read in blocks of B
\* bytes, next_raw hands out N div B blocks of B bytes and then one block
\* of N mod B bytes, and returns None after these N div B + 1 blocks.
C9_BlockCount ==
    LET N == source.source.len
        B == blocksize(source)
    IN SourceNeverFailed =>
        /\ Cardinality(Pulled) = produced
        /\ produced <= N \div B + 1
        /\ \A i \in Pulled :
              LET j == Cardinality({ m \in Pulled : m <= i })
              IN Len(trace[i].bytes) - 4 = IF j <= N \div B THEN B ELSE N % B
        /\ (\E i \in 1..Len(trace) : trace[i].ev = "next_raw" /\ trace[i].res = "none")
              => produced = N \div B + 1

C9_Witness ==
    /\ SourceNeverFailed
    /\ source.source.len = 2 * MinBlockSize
    /\ blocksize(source) = MinBlockSize
    /\ produced = 3
    /\ trace[Len(trace)].ev = "next_raw"
    /\ trace[Len(trace)].res = "none"
    /\ \E i \in Pulled : Len(trace[i].bytes) = 4

\* C10: the k-th block handed out carries the number k mod 65536, and the
\* Ack that lets the transfer go on after it is the Ack of that number.
C10_BlockNumberWraps ==
    /\ [](pc \in { "send_data", "recv_ack" } =>
            /\ produced >= 1
            /\ from_be_bytes(bytes[3], bytes[4]) = produced % U16Modulus
            /\ last_block(source) = produced % U16Modulus)
    /\ [][(pc = "recv_ack" /\ pc' = "next_raw")
            => sock' = AckBytes(produced % U16Modulus)]_vars

C10_Witness ==
    /\ produced = U16Modulus
    /\ pc = "next_raw"
    /\ last_block(source) = 0
    /\ sock = AckBytes(0)

(***************************************************************************)
(* The codec claims, read off the state of SpecCodec.                      *)
(***************************************************************************)
\* a packet was encoded into a buffer that held it
Encoded == codec.kind = "packet" /\ codec.step \in { "encoded", "decoded" } /\ codec.enc.ok
\* ... and the bytes written were decoded
RoundTripped == codec.kind = "packet" /\ codec.step = "decoded"

\* C11: every packet of the public constructors, encoded into a buffer that
\* holds its encoding and decoded again, is the same packet: same kind, same
\* opcode, same fields, same payload.
C11_RoundTrip == RoundTripped => codec.dec = codec.packet

\* C12: the encoding of Ack(n) is exactly 4 bytes, the big-endian opcode 4
\* and then the big-endian n, and these bytes decode as Ack(n).
C12_AckEncoding ==
    /\ Encoded /\ codec.packet.tag = "Ack" =>
           codec.enc.bytes = << 0, 4 >> \o to_be_bytes(codec.packet.block_nr)
    /\ RoundTripped /\ codec.packet.tag = "Ack" => codec.dec = codec.packet

\* the options of a request in the order Request::to_bytes writes them
RequestOptionList(p) ==
    If(IsSome(p.blocksize),
       << [name |-> S_blksize, value |-> FormatDec(DecOfInt(p.blocksize[1]))] >>)
    \o If(IsSome(p.timeout_seconds),
          << [name |-> S_timeout, value |-> FormatDec(DecOfInt(p.timeout_seconds[1]))] >>)
    \o If(p.include_transfer_size, << [name |-> S_tsize, value |-> << 48 >>] >>)

\* C13: the encoding of a Request is opcode, filename, 0, mode, 0, options
\* with a mode that equals "octet" when case is ignored, and the decoder
\* accepts every Request the encoder produced.
C13_RequestEncoding ==
    /\ Encoded /\ codec.packet.tag = "Request" =>
           \E mode \in { SubSeq(codec.enc.bytes, Len(codec.packet.filename) + 4,
                                Len(codec.packet.filename) + 8) } :
               /\ eq_ignore_ascii_case(mode, S_octet)
               /\ codec.enc.bytes =
                      to_be_bytes(IF codec.packet.is_read THEN 1 ELSE 2)
                          \o codec.packet.filename \o << 0 >> \o mode \o << 0 >>
                          \o OptionBytes(RequestOptionList(codec.packet))
    /\ RoundTripped /\ codec.packet.tag = "Request" => codec.dec.tag = "Request"

\* the buffer is shorter than the encoding of the packet
ShortBuffer == codec.kind = "packet" /\ codec.buflen < EncodedLen(codec.packet)

\* no to_bytes has aborted, a writer at work has written no more bytes than
\* its buffer has, and a to_bytes into a short buffer or from a writer that
\* recorded an overflow returned BufferTooSmall
EncodeBounded ==
    codec.kind = "packet" =>
        /\ ~codec.w.panicked /\ Len(codec.w.bytes) <= codec.buflen
        /\ codec.step \in { "encoded", "decoded" } =>
               /\ ~codec.enc.panic
               /\ Len(codec.enc.bytes) <= codec.buflen
               /\ ShortBuffer \/ codec.w.overflowed => codec.enc = EncodeErr

\* a push leaves the overflow recorded, and the to_bytes of a writer that
\* recorded one returns BufferTooSmall
OverflowKept ==
    codec.step = "writing" /\ codec.w.overflowed =>
        \/ codec'.step = "writing" /\ codec'.w.overflowed
        \/ codec'.step = "encoded" /\ codec'.enc = EncodeErr

\* C14: for a packet of any kind and a buffer shorter than its encoding,
\* encoding returns BufferTooSmall, does not abort and writes no byte at or
\* past the length of the buffer: after every push the write position of
\* the writer is at most the length of the buffer, and once an overflow is
\* recorded the result is BufferTooSmall.
C14_BufferTooSmall == [] EncodeBounded /\ [][OverflowKept]_vars

\* a request with a block size, written into a buffer that ended inside the
\* option: the buffer is full, and to_bytes returned BufferTooSmall
C14_Witness ==
    /\ ShortBuffer /\ codec.step = "encoded"
    /\ codec.packet.tag = "Request" /\ IsSome(codec.packet.blocksize)
    /\ codec.buflen > Len(codec.packet.filename) + 10
    /\ Len(codec.w.bytes) = codec.buflen
    /\ codec.w.overflowed /\ codec.enc = EncodeErr


\* bytes were handed to Packet::from_bytes
DecodedWire == codec.step = "decoded"
\* the first two bytes of the wire as a big-endian number
WireOpcode == from_be_bytes(codec.wire[1], codec.wire[2])

\* C15: decoding fewer than 2 bytes fails with BufferTooSmall; when the
\* first two bytes, read as a big-endian number v, are not in 1..=6,
\* decoding fails with InvalidOpcode(v) whatever bytes follow.
C15_Opcode ==
    DecodedWire =>
        /\ Len(codec.wire) < 2 => codec.dec = DecodeErr("BufferTooSmall")
        /\ Len(codec.wire) >= 2 /\ WireOpcode \notin 1..6 =>
               codec.dec = InvalidOpcode(WireOpcode)

\* four bytes from the wire whose first two are 1, 4 (the number 260)
C15_Witness ==
    /\ DecodedWire /\ codec.kind = "raw"
    /\ Len(codec.wire) = 4 /\ WireOpcode = 260
    /\ codec.dec = InvalidOpcode(260)


PacketKinds == { "Request", "Data", "Ack", "Error", "OptionAck" }
\* the errors of a malformed packet
MalformedErrors ==
    { "BufferTooSmall", "InvalidOpcode", "BadFormatting", "OptionRepeated",
      "InvalidBlockSize" }

\* C16: decoding reads no byte outside the buffer and does not abort: for
\* every byte sequence it returns a packet or one of the errors of a
\* malformed packet, and the Data, Ack and Error decoders return
\* BufferTooSmall when there are fewer than 4 bytes.
C16_DecodeTotal ==
    DecodedWire =>
        /\ codec.dec.tag # "Panic"
        /\ \/ codec.dec.tag \in PacketKinds
           \/ codec.dec.tag = "Err" /\ codec.dec.err \in MalformedErrors
        /\ Len(codec.wire) \in { 2, 3 } /\ WireOpcode \in { 3, 4, 5 } =>
               codec.dec = DecodeErr("BufferTooSmall")

\* three bytes from the wire that begin a Data packet
C16_Witness ==
    /\ DecodedWire /\ codec.kind = "raw"
    /\ Len(codec.wire) = 3 /\ WireOpcode = 3
    /\ codec.dec = DecodeErr("BufferTooSmall")


(***************************************************************************)
(* Options on the wire.  A decimal integer is one or more ASCII digits,    *)
(* with or without a '+' before them; its number is kept as digits.        *)
(***************************************************************************)
Digits(str) == IF Len(str) > 0 /\ str[1] = 43 THEN Tail(str) ELSE str
IsDecimal(str) ==
    /\ Len(Digits(str)) > 0
    /\ \A i \in 1..Len(Digits(str)) : Digits(str)[i] \in 48..57
DecimalOf(str) == StripZeros([i \in 1..Len(Digits(str)) |-> Digits(str)[i] - 48])
DecIn(v, lo, hi) == DecLeq(DecOfInt(lo), v) /\ DecLeq(v, DecOfInt(hi))

\* the option a name on the wire stands for, whatever the case of its
\* letters
OptionOf(name) ==
    IF name \in { S_blksize, S_BLKSIZE } THEN "blksize"
    ELSE IF name \in { S_tsize, S_TsIzE } THEN "tsize"
    ELSE IF name \in { S_timeout, S_Timeout } THEN "timeout"
    ELSE "unknown"

\* a Request or an OptionAck from the wire was decoded
DecodedOptions == DecodedWire /\ codec.kind = "options"
\* ... and its first option is this one
FirstOptionIs(option) ==
    DecodedOptions /\ Len(codec.opts) > 0 /\ OptionOf(codec.opts[1].name) = option
FirstValue == codec.opts[1].value
OnlyOption == Len(codec.opts) = 1
\* the decoder returned a packet of the kind of the header
DecodedPacket ==
    codec.dec.tag = (IF codec.head.opcode = 6 THEN "OptionAck" ELSE "Request")

\* what C17 says of a blksize value that is the decimal integer v
BlockSizeByRange(v) ==
    IF DecIn(v, MinBlockSize, MaxBlockSize)
    THEN /\ codec.dec # InvalidBlockSize(v)
         /\ OnlyOption => DecodedPacket /\ codec.dec.blocksize = Some(IntOfDec(v))
    ELSE codec.dec = InvalidBlockSize(v)

\* C17 as claimed: a blksize value that is a decimal integer v is accepted
\* exactly when 8 <= v <= 65464, every other decimal integer v is rejected
\* with InvalidBlockSize(v), and a value that is not a decimal integer is
\* rejected with BadFormatting.
C17_BlockSizeRange ==
    FirstOptionIs("blksize") =>
        IF IsDecimal(FirstValue) THEN BlockSizeByRange(DecimalOf(FirstValue))
        ELSE codec.dec = DecodeErr("BadFormatting")

\* C17, amended: a blksize value that is a decimal integer v of at most
\* 4294967295 is accepted exactly when 8 <= v <= 65464 and is rejected with
\* InvalidBlockSize(v) otherwise; a value that is not a decimal integer, or
\* is one above 4294967295, is rejected with BadFormatting.
C17_BlockSizeRangeU32 ==
    FirstOptionIs("blksize") =>
        IF IsDecimal(FirstValue) /\ DecLeq(DecimalOf(FirstValue), U32Max)
        THEN BlockSizeByRange(DecimalOf(FirstValue))
        ELSE codec.dec = DecodeErr("BadFormatting")

\* a read request whose only option is BLKSIZE with the value "65465"
C17_Witness ==
    /\ FirstOptionIs("blksize") /\ OnlyOption /\ codec.head.opcode = 1
    /\ codec.opts[1].name = S_BLKSIZE
    /\ FirstValue = FormatDec(DecOfInt(MaxBlockSize + 1))
    /\ codec.dec = InvalidBlockSize(DecOfInt(MaxBlockSize + 1))


\* the values a decoder takes for an option: blksize 8..=65464; tsize "0"
\* in a Request and a u64 in an OptionAck; timeout 1..=255
ValidValue(o) ==
    CASE OptionOf(o.name) = "blksize" ->
             IsDecimal(o.value) /\ DecIn(DecimalOf(o.value), MinBlockSize, MaxBlockSize)
      [] OptionOf(o.name) = "tsize" ->
             IF codec.head.opcode = 6
             THEN IsDecimal(o.value) /\ DecLeq(DecimalOf(o.value), U64Max)
             ELSE o.value = << 48 >>
      [] OptionOf(o.name) = "timeout" ->
             IsDecimal(o.value) /\ DecIn(DecimalOf(o.value), 1, 255)
      [] OTHER -> TRUE

\* option j of the wire names blksize, tsize or timeout as an option
\* before it did
RepeatAt(j) ==
    /\ OptionOf(codec.opts[j].name) # "unknown"
    /\ \E i \in 1..(j - 1) : OptionOf(codec.opts[i].name) = OptionOf(codec.opts[j].name)
\* the options before option j are valid and none of them is a repetition
CleanBefore(j) ==
    \A k \in 1..(j - 1) : ~RepeatAt(k) /\ ValidValue(codec.opts[k])

\* C18: decoding a Request or an OptionAck in which blksize, tsize or
\* timeout, in letters of any case, appears a second time after a valid
\* first occurrence fails with OptionRepeated whatever the second value is,
\* so that a decoded packet holds each of the three options at most once.
C18_OptionRepeated ==
    DecodedOptions =>
        /\ \A j \in 1..Len(codec.opts) :
               RepeatAt(j) /\ CleanBefore(j) => codec.dec = DecodeErr("OptionRepeated")
        /\ DecodedPacket => \A j \in 1..Len(codec.opts) : ~RepeatAt(j)

\* an OptionAck with blksize 8, an unknown option, and BLKSIZE "abc"
C18_Witness ==
    /\ DecodedOptions /\ codec.head.opcode = 6 /\ Len(codec.opts) = 3
    /\ codec.opts[1] = [name |-> S_blksize, value |-> << 56 >>]
    /\ codec.opts[2] = UnknownOption
    /\ codec.opts[3] = [name |-> S_BLKSIZE, value |-> << 97, 98, 99 >>]
    /\ codec.dec = DecodeErr("OptionRepeated")


\* C19: a Request takes a tsize option only with the value "0", and then
\* its include_transfer_size is true; any other value, "00" and other
\* numbers among them, fails with BadFormatting.  An OptionAck takes a tsize
\* value exactly when it is a decimal integer of the unsigned 64-bit range,
\* and records that number.
C19_TransferSize ==
    FirstOptionIs("tsize") =>
        IF codec.head.opcode # 6
        THEN IF FirstValue = << 48 >>
             THEN OnlyOption => DecodedPacket /\ codec.dec.include_transfer_size
             ELSE codec.dec = DecodeErr("BadFormatting")
        ELSE IF IsDecimal(FirstValue) /\ DecLeq(DecimalOf(FirstValue), U64Max)
             THEN OnlyOption =>
                      /\ DecodedPacket
                      /\ codec.dec.transfer_size = Some(DecimalOf(FirstValue))
             ELSE codec.dec = DecodeErr("BadFormatting")

\* a write request whose only option is TsIzE with the value "00"
C19_Witness ==
    /\ FirstOptionIs("tsize") /\ OnlyOption /\ codec.head.opcode = 2
    /\ FirstValue = << 48, 48 >>
    /\ codec.dec = DecodeErr("BadFormatting")

\* C20: a Request and an OptionAck take a timeout option exactly when its
\* value is a decimal integer in 1..=255; 0, 256 and a value that is no
\* number fail with the parse error BadFormatting, and the timeout_seconds
\* of a decoded packet is never 0.
C20_Timeout ==
    /\ FirstOptionIs("timeout") =>
           IF IsDecimal(FirstValue) /\ DecIn(DecimalOf(FirstValue), 1, 255)
           THEN OnlyOption =>
                    /\ DecodedPacket
                    /\ codec.dec.timeout_seconds = Some(IntOfDec(DecimalOf(FirstValue)))
           ELSE codec.dec = DecodeErr("BadFormatting")
    /\ DecodedWire /\ codec.dec.tag \in { "Request", "OptionAck" } =>
           codec.dec.timeout_seconds # Some(0)

\* an OptionAck whose only option is timeout with the value "0"
C20_Witness ==
    /\ FirstOptionIs("timeout") /\ OnlyOption /\ codec.head.opcode = 6
    /\ FirstValue = << 48 >>
    /\ codec.dec = DecodeErr("BadFormatting")


\* the letters of "octet", each in either case
IsOctetMode(mode) ==
    /\ Len(mode) = 5
    /\ \A i \in 1..5 : mode[i] \in { << 111, 99, 116, 101, 116 >>[i],
                                     << 79, 67, 84, 69, 84 >>[i] }

\* a Request from the wire was decoded
DecodedRequest ==
    /\ DecodedWire /\ codec.kind \in { "options", "modes" }
    /\ codec.head.opcode \in { 1, 2 }

\* C21: decoding a Request succeeds only if its mode is "octet" in letters
\* of any case; a Request in mode "netascii" or in any other mode is
\* rejected with a parse error, whatever its filename and its options.
C21_OctetOnly ==
    DecodedRequest =>
        /\ codec.dec.tag = "Request" => IsOctetMode(codec.head.mode)
        /\ ~IsOctetMode(codec.head.mode) =>
               codec.dec.tag = "Err" /\ codec.dec.err \in MalformedErrors

\* a read request for "" in mode netascii with the option blksize 8
C21_Witness ==
    /\ DecodedRequest /\ codec.head.mode = S_netascii /\ codec.head.filename = << >>
    /\ codec.opts = << [name |-> S_blksize, value |-> << 56 >>] >>
    /\ codec.dec = DecodeErr("BadFormatting")


\* a region was scanned for a text
Scanned == codec.step = "scanned"
\* the positions of the region whose byte is outside 32..=127
OutOfRange == { i \in 1..Len(codec.wire) : codec.wire[i] \notin 32..127 }
FirstOutOfRange == CHOOSE i \in OutOfRange : \A j \in OutOfRange : i <= j
ScanFailed == ~codec.scan.ok /\ ~codec.scan.panic

IsUnknown(o) == OptionOf(o.name) = "unknown"
UnknownOnWire == SelectSeq(codec.opts, IsUnknown)

\* C23: for a decoded Request or OptionAck, unknown_options() yields in the
\* order of the wire exactly the pairs of the option region whose name is
\* none of blksize, tsize, timeout in letters of any case: no pair that the
\* decoder recorded as block size, transfer size or timeout; and every
\* call scans from the start and yields the same sequence.
C23_UnknownOptions ==
    DecodedOptions /\ DecodedPacket =>
        \A c \in 1..Len(codec.calls) : codec.calls[c] = UnknownOnWire


(***************************************************************************)
(* The option round and the blocks of a transfer.                          *)
(***************************************************************************)
\* the OptionAck of the transfer has no option, known or unknown
NoOption ==
    /\ options.blocksize = None
    /\ options.transfer_size = None
    /\ options.timeout_seconds = None
    /\ options.unknown_options = << >>

\* the places of the trace where a datagram was handed to the socket
Sends == { i \in 1..Len(trace) : trace[i].ev = "send" }
IsFirstSend(i) == i \in Sends /\ \A j \in Sends : i <= j
\* the block number of a Data frame
BlockOf(b) == from_be_bytes(b[3], b[4])
IsDataBlock(e, n) == IsSendOf(e, "Data") /\ BlockOf(e.bytes) = n

\* is_empty() is true exactly when no option is set; when it is false the
\* transfer begins by sending its OptionAck, a receive follows the send
\* that went out, and only an Ack of block 0 lets the transfer go on; when
\* it is true no OptionAck is sent and the transfer begins with the source
OptionRound ==
    /\ is_empty(options) <=> NoOption
    /\ ~NoOption /\ Len(trace) >= 1 =>
           /\ trace[1].ev = "send" /\ KindOf(trace[1].bytes) = "OptionAck"
           /\ Len(trace) >= 2 =>
                  trace[1].res = "ok" /\ trace[2].ev = "recv"
           /\ Len(trace) >= 3 => IsRecvAck(trace[2], 0)
    /\ NoOption =>
           /\ \A i \in 1..Len(trace) : ~IsSendOf(trace[i], "OptionAck")
           /\ Len(trace) >= 1 => trace[1].ev = "next_raw"

OtherAnswer ==
    /\ ~NoOption /\ Len(trace) >= 2
    /\ IsReply(trace[2]) /\ ~IsRecvAck(trace[2], 0)

\* C25: in the option round every reply that is not an Ack of block 0 (an
\* Error packet, an Ack of another block, a Data, Request or OptionAck
\* packet, a datagram that does not decode) makes finish return an error,
\* the source never read and no Data block sent.
C25_OptionRoundAborts ==
    OtherAnswer =>
        /\ pc = "done" /\ result.status = "err"
        /\ Len(trace) = 2
        /\ source.source.pos = 0 /\ source.block_counter = 0 /\ produced = 0
        /\ ~source.is_finished

\* the OptionAck was answered with an Ack of block 1
C25_Witness ==
    /\ OtherAnswer
    /\ Decoded(trace[2]).tag = "Ack" /\ Decoded(trace[2]).block_nr = 1
    /\ pc = "done" /\ result.status = "err"


(***************************************************************************)
(* Two transfers at once.                                                  *)
(***************************************************************************)
\* transfer i of the pair, running or parked
TransferOf(i) == IF parked.id = i THEN parked ELSE Current

\* what came to a transfer from outside at one call: whether a send went
\* out, what a receive brought, what the source gave and how many bytes
InputOf(e) ==
    CASE e.ev = "send" -> [ev |-> e.ev, res |-> e.res, bytes |-> << >>, n |-> 0]
      [] e.ev = "recv" -> [ev |-> e.ev, res |-> e.res, bytes |-> e.bytes, n |-> 0]
      [] OTHER -> [ev |-> e.ev, res |-> e.res, bytes |-> << >>, n |-> Len(e.bytes)]
InputsOf(t) == [k \in 1..Len(t.trace) |-> InputOf(t.trace[k])]

\* two transfers of the same source and OptionAck to which the same came
\* from outside sent the same datagrams, count the same blocks and have
\* the same result
SameInputsSameRun ==
    \A i, j \in { 1, 2 } :
        LET a == TransferOf(i)
            b == TransferOf(j)
        IN (/\ parked.id # 0
            /\ a.options = b.options
            /\ a.source.source.len = b.source.source.len
            /\ InputsOf(a) = InputsOf(b)) =>
               /\ a.trace = b.trace
               /\ a.source.block_counter = b.source.block_counter
               /\ a.produced = b.produced
               /\ a.result = b.result

\* no step changes a field of the transfer that is parked, and a switch
\* of threads changes no field of either
ParkedUntouched ==
    \A i \in { 1, 2 } :
        (parked.id = i \/ parked'.id = i) => TransferOf(i)' = TransferOf(i)

BlocksizeInRange(p) ==
    p.tag \in { "Request", "OptionAck" } =>
        \/ IsNone(p.blocksize)
        \/ Unwrap(p.blocksize) \in MinBlockSize..MaxBlockSize

\* C27: every Request and every OptionAck, decoded from a wire or built
\* by OptionAck::new, Packet::new_read_request or
\* Packet::new_write_request, has a blocksize that is absent or within
\* 8..=65464.
C27_BlocksizeInRange ==
    /\ codec.kind = "packet" => BlocksizeInRange(codec.packet)
    /\ codec.step = "decoded" => BlocksizeInRange(codec.dec)



\* ---- C28 ----

\* the places of the trace where a Data block was handed to the socket
DataSends == { i \in 1..Len(trace) : IsSendOf(trace[i], "Data") }
\* the count of bytes a Data frame carries behind its four bytes of header
PayloadLen(b) == Len(b) - 4

\* C28: the block size of a transfer is the blocksize of its OptionAck when
\* that is set and 512 otherwise; no Data datagram carries more bytes than
\* the block size, and every Data datagram but the last one carries
\* exactly that many.
C28_BlockSize ==
    /\ blocksize(source) = IF IsSome(options.blocksize) THEN Unwrap(options.blocksize)
                           ELSE 512
    /\ \A i \in DataSends :
          /\ PayloadLen(trace[i].bytes) <= blocksize(source)
          /\ (\E j \in DataSends : i < j) =>
                 PayloadLen(trace[i].bytes) = blocksize(source)

\* a source of 17 bytes has gone out in blocks of 8, 8 and 1 bytes under
\* an OptionAck with blksize 8
C28_Witness ==
    /\ options.blocksize = Some(MinBlockSize)
    /\ source.source.len = 2 * MinBlockSize + 1
    /\ pc = "done" /\ result = ResultOk
    /\ Cardinality(DataSends) = 3
    /\ \E i \in DataSends :
          /\ PayloadLen(trace[i].bytes) = 1
          /\ \A j \in DataSends \ { i } :
                j < i /\ PayloadLen(trace[j].bytes) = MinBlockSize



\* ---- C29 ----

\* what the call of next_raw just made has returned
Returned == trace'[Len(trace')]

\* a call of next_raw on a stream that is not finished sets the flag
\* exactly when it returns a block shorter than the block size or an
\* error of the source
FinishedSet ==
    ~source.is_finished =>
        (source'.is_finished <=>
            \/ Returned.res = "err"
            \/ Returned.res = "some" /\ Len(Returned.bytes) - 4 < blocksize(source))

\* a call of next_raw on a finished stream returns None and leaves the
\* flag, the source and the block counter as they were
FinishedKept ==
    source.is_finished =>
        /\ source'.is_finished
        /\ Returned.res = "none"
        /\ source'.source = source.source
        /\ source'.block_counter = source.block_counter

\* no call after the one that failed returns a block
NoBlockAfterError ==
    \A i, j \in 1..Len(trace) :
        (i < j /\ trace[i].res = "err") => trace[j].res = "none"

\* C29: the finished flag of a DataStream is a latch.  It is set when
\* next_raw returns a block shorter than the block size or an error of the
\* source, it is never cleared, and every later next_raw returns None
\* without reading the source or changing the block counter; no block
\* comes after an I/O error of the source.
C29_FinishedLatch == [][FinishedSet /\ FinishedKept]_vars /\ [] NoBlockAfterError

\* a block, then an error of the source, then None twice, the source
\* having had more bytes both times
C29_Witness ==
    /\ pc = "stream"
    /\ Len(trace) = 4
    /\ trace[1].res = "some" /\ trace[2].res = "err"
    /\ trace[3].res = "none" /\ trace[4].res = "none"
    /\ source.source.pos < source.source.len
    /\ source.block_counter = 2



\* ---- C30 ----

\* the payloads of the blocks that the first k calls of next_raw returned,
\* one behind the other
RECURSIVE PayloadsUpTo(_)
PayloadsUpTo(k) ==
    IF k = 0 THEN << >>
    ELSE PayloadsUpTo(k - 1)
             \o (IF trace[k].ev = "next_raw" /\ trace[k].res = "some"
                 THEN Drop(trace[k].bytes, 4) ELSE << >>)

\* a read() of the call at place k brought fewer bytes than asked for, or
\* failed with Interrupted
BrokenRead(k) == \E m \in 1..Len(trace[k].reads) : trace[k].reads[m] \in { "short", "interrupted" }

\* C30: the payloads of the blocks, one behind the other, are the bytes of
\* the source, none lost, doubled, moved or made up: the first bytes of
\* the source as far as it has been read, and all of them once the stream
\* has finished; also when reads bring fewer bytes than asked for or fail
\* with Interrupted between reads that bring bytes.
C30_PayloadsAreSource ==
    \E p \in { PayloadsUpTo(Len(trace)) } :
        /\ Len(p) <= source.source.len
        /\ p = [i \in 1..Len(p) |-> SourceByte(i)]
        /\ SourceNeverFailed => Len(p) = source.source.pos
        /\ SourceNeverFailed /\ source.is_finished => Len(p) = source.source.len

\* a source of 8 bytes has gone out whole in blocks of 3, 3 and 2 bytes,
\* the first block read a byte, an Interrupted and then the rest, the
\* second one after an Interrupted
C30_Witness ==
    /\ pc = "stream"
    /\ source.is_finished /\ SourceNeverFailed
    /\ source.source.len = MaxStreamLen /\ blocksize(source) = 3
    /\ Len(trace) >= 3
    /\ trace[1].reads = << "short", "interrupted" >> /\ Len(trace[1].bytes) = 7
    /\ trace[2].reads = << "interrupted" >> /\ Len(trace[2].bytes) = 7
    /\ BrokenRead(3) /\ Len(trace[3].bytes) = 6
    /\ Len(PayloadsUpTo(Len(trace))) = MaxStreamLen



\* ---- C31 ----

\* a read() of the call fails with an error that is neither Interrupted
\* nor WouldBlock, the reads before it (a byte each) having neither filled
\* a buffer of L bytes nor found the end of a source of R bytes
ErrorReached(reads, L, R) ==
    \E m \in 1..Len(reads) :
        /\ reads[m] = "error"
        /\ \A k \in 1..(m - 1) : reads[k] # "error"
        /\ \E s \in { Cardinality({ k \in 1..(m - 1) : reads[k] = "short" }) } :
               s < L /\ s <= R

\* what try_read_exact, called by next_raw on the buffer behind the header,
\* has done: an error of a read is returned as it is; otherwise the
\* count returned is the smaller of L and R, the bytes of the buffer up to
\* it are the next bytes of the source, those behind it are as they were,
\* the source is that many bytes further, and it is at its end when the
\* count is below L
ReadExact ==
    ~source.is_finished /\ Len(trace') = Len(trace) + 1 =>
        \E L \in { blocksize(source) } :
        \E R \in { source.source.len - source.source.pos } :
        \E n \in { Min(L, R) } :
            IF ErrorReached(Returned.reads, L, R)
            THEN Returned.res = "err" /\ failure' = SourceError
            ELSE /\ Returned.res = "some"
                 /\ Len(Returned.bytes) - 4 = n
                 /\ \A i \in 1..n :
                       source'.buffer[4 + i] = SourceByte(source.source.pos + i)
                 /\ Drop(source'.buffer, 4 + n) = Drop(source.buffer, 4 + n)
                 /\ source'.source.pos = source.source.pos + n
                 /\ n < L => source'.source.pos = source.source.len

\* C31: try_read_exact on a buffer of L bytes over a source with R bytes
\* left returns the smaller of L and R and has filled that prefix of the
\* buffer with the next bytes of the source; the count is below L only at
\* the end of the source; a read that fails with Interrupted is tried
\* again, and a read that fails with an error other than Interrupted and
\* WouldBlock makes try_read_exact return that error.
C31_TryReadExact == [][ReadExact]_vars

\* a buffer of 4 bytes over a source of 3: a byte, an Interrupted, the two
\* bytes left, and the end of the source
C31_Witness ==
    /\ pc = "stream"
    /\ blocksize(source) = 4 /\ source.source.len = 3
    /\ Len(trace) = 1
    /\ trace[1].reads = << "short", "interrupted" >>
    /\ trace[1].res = "some" /\ Drop(trace[1].bytes, 4) = << 97, 98, 99 >>
    /\ source.source.pos = 3



\* ---- C32 ----

\* the Data packet of the block that the call of next_raw just made has
\* read: the block number is what last_block() reports now, the payload
\* the bytes of the source that the call has gone past
BlockRead ==
    new_data(last_block(source'),
             [i \in 1..(source'.source.pos - source.source.pos) |->
                  SourceByte(source.source.pos + i)])

\* the frame that next_raw returns is the encoding of that packet, and is
\* decoded to it
FrameIsData ==
    Len(trace') = Len(trace) + 1 /\ Returned.res = "some" =>
        /\ Data_to_bytes(BlockRead, BigBuffer) = EncodeOk(Returned.bytes)
        /\ Take(Returned.bytes, 4) = << 0, 3 >> \o to_be_bytes(last_block(source'))
        /\ Packet_from_bytes(Returned.bytes) = BlockRead

\* the first two bytes of the buffer are the opcode of Data
OpcodeStamped == Take(source.buffer, 2) = << 0, 3 >>

\* C32: every frame that next_raw returns is the encoding of a Data
\* packet: the opcode 3 and the block counter, both big-endian, and then
\* the payload.  Decoded, it is the Data packet with the block number that
\* last_block() reports and the same payload, and no later block
\* overwrites the opcode that DataStream::new has put in the buffer.
C32_FrameIsData == [][FrameIsData]_vars /\ [] OpcodeStamped

\* the second block of 3 bytes of a source of 8
C32_Witness ==
    /\ pc = "stream"
    /\ Len(trace) = 2 /\ trace[1].res = "some" /\ trace[2].res = "some"
    /\ source.source.len = MaxStreamLen
    /\ trace[2].bytes = << 0, 3, 0, 2, 100, 101, 102 >>
    /\ Packet_from_bytes(trace[2].bytes) = new_data(2, << 100, 101, 102 >>)
    /\ last_block(source) = 2



\* ---- C33 ----

\* C33: termination.  Of a source that has an end and never fails, and
\* for every block size that DataStream::new takes (0 to 65535), next_raw
\* called again and again returns None in the end, and so Transfer::finish,
\* with a peer that answers every datagram with its Ack, returns Ok after
\* finitely many Data blocks.
C33_Terminates == <>(pc = "done")



\* ---- C34 ----

\* what a call of unknown_options() yielded is pairs and no Err: the
\* iterator came to the end of the region
EndsWithoutError(items) ==
    \A k \in 1..Len(items) : DOMAIN items[k] = { "name", "value" }

\* C34: of a Request or OptionAck that was decoded, the iterator of
\* unknown_options() yields finitely many items and ends, and no item is
\* an error, the option region having been scanned to its end by the
\* decoder; when the packet has no option that the decoder does not know,
\* the iterator yields nothing.
C34_UnknownOptionsEnd ==
    DecodedWire /\ codec.dec.tag \in { "Request", "OptionAck" } =>
        \A c \in 1..Len(codec.calls) :
            /\ EndsWithoutError(codec.calls[c])
            /\ 2 * Len(codec.calls[c]) <= Len(codec.wire)
            /\ codec.kind \in { "options", "modes" } =>
                   /\ Len(codec.calls[c]) <= Len(codec.opts)
                   /\ UnknownOnWire = << >> => codec.calls[c] = << >>

\* an OptionAck with an option that the decoder does not know among two or
\* more was decoded, and unknown_options() was called on it twice
C34_Witness ==
    /\ DecodedOptions /\ codec.dec.tag = "OptionAck"
    /\ Len(codec.opts) >= 2
    /\ Len(codec.calls) = 2
    /\ codec.calls[1] # << >> /\ EndsWithoutError(codec.calls[1])
    /\ codec.calls[2] # << >> /\ EndsWithoutError(codec.calls[2])



\* ---- C35 ----

\* the packet handed to the wrapper has no encoding within the wrapper's
\* buffer
DoesNotFit == ~Packet_to_bytes(codec.packet, SockBufferSize).ok

\* C35: a send through the socket wrapper (send_message, send_message_to,
\* Server::send_error_to) returns Ok or an error and never aborts; when
\* the encoding of the packet does not fit the wrapper's buffer, as that
\* of an Error packet with a long message, the send returns an I/O error
\* and nothing is handed to the socket.
C35_SendNeverAborts ==
    codec.step = "message" /\ pc = "done" =>
        /\ result.status \in { "ok", "err" }
        /\ DoesNotFit => result.status = "err" /\ trace = << >>


=============================================================================
